---------------------------- MODULE Spec2Model ----------------------------
(***************************************************************************)
(* A model of the Amayori front end: the OwnershipTracker and the          *)
(* BorrowChecker of amyr-borrow-check, and the Tokenizer -> Parser ->      *)
(* BorrowChecker pipeline.                                                 *)
(***************************************************************************)
EXTENDS Integers, Sequences, FiniteSets, TLC

(***************************************************************************)
(* Bounds of the model.                                                    *)
(***************************************************************************)
\* enter_scope is explored up to this scope level
MaxDepth == 2
\* exit_scope is explored down to this many unmatched calls
MaxUnderflow == 1
\* check_variable is explored up to this many recorded violations
MaxErrors == 1

\* the binding names the OwnershipTracker operations are called with
Names == {"x", "y"}

\* the borrower names register_borrow is called with
Borrowers == {"r", "s"}

\* the names of the Var nodes check_variable is called with
CheckedNames == {"x"}

\* enum class BorrowKind
BorrowKind == {"Shared", "Mutable", "Move"}

\* enum class ViolationType
ViolationType == {"BorrowWhileMutable", "UseAfterMove", "InvalidBorrow"}

(***************************************************************************)
(* State.                                                                  *)
(***************************************************************************)
VARIABLES
    ownership_map,  \* OwnershipTracker::ownership_map: name -> OwnershipData
    current_scope,  \* OwnershipTracker::current_scope
    errors,         \* BorrowChecker::errors
    last,           \* the last call made and the value it returned
    borrow_kinds    \* history: the BorrowKind each entry of borrowers was
                    \* registered with (the code keeps only the borrower name)

VARIABLES
    source,         \* Tokenizer::source, a sequence of characters
    start,          \* Tokenizer::start
    current,        \* Tokenizer::current
    line,           \* Tokenizer::line
    tokens,         \* Tokenizer::tokens, then Parser::tokens
    phase,          \* where the compilation of source stands
    thrown,         \* what() of the exception that ended the compilation
    ast,            \* the tree Parser::parse returned
    check_ret,      \* what BorrowChecker::check returned
    borrow_set      \* BorrowChecker::borrow_set

VARIABLES
    input_,         \* Cursor::input_, a sequence of characters
    pos_,           \* Cursor::pos_
    len_remaining_, \* Cursor::len_remaining_
    lexed,          \* the tokens advance_token has returned, each with the
                    \* position it started at
    lexer_state     \* whether the TokenIterator can still be called

VARIABLES
    parser_current,     \* Parser::current
    declared_variables, \* Parser::declared_variables
    scope_depth         \* Parser::scope_depth

VARIABLES
    vec,            \* a Vec<T>: its fields ptr, cap and len
    encoder,        \* an Encoder: ec, the bytes it handed to encode_bytes, and
                    \* history: the values emitted, each with its byte count
    decoder         \* a BufferDecoder: data_, size_, pos_, and history: the
                    \* values read, each with the positions before and after

trackerVars == <<ownership_map, current_scope, errors, last, borrow_kinds>>

tokenizerVars == <<source, start, current, line, tokens>>

pipelineVars == <<phase, thrown, ast, check_ret, borrow_set>>

lexerVars == <<input_, pos_, len_remaining_, lexed, lexer_state>>

parserVars == <<parser_current, declared_variables, scope_depth>>

libraryVars == <<vec, encoder, decoder>>

vars == <<trackerVars, tokenizerVars, pipelineVars, lexerVars, parserVars, libraryVars>>

\* the variables the OwnershipTracker operations leave alone
nonTrackerVars == <<tokenizerVars, pipelineVars, lexerVars, parserVars, libraryVars>>

(***************************************************************************)
(* OwnershipTracker                                                        *)
(***************************************************************************)

\* ownership_map.find(name) != ownership_map.end()
Registered(m, name) == name \in DOMAIN m

\* struct OwnershipData, as register_variable initialises it
OwnershipData(is_mut, scope) ==
    [is_mutable |-> is_mut, borrowers |-> <<>>, scope_level |-> scope, moved |-> FALSE]

\* mutant: the Shared case admits a borrow whatever the borrowers are
can_borrow_SharedIgnoresBorrowers(m, name, kind) ==
    IF ~Registered(m, name) \/ m[name].moved THEN FALSE
    ELSE CASE kind = "Shared"  -> ~m[name].moved
           [] kind = "Mutable" -> ~m[name].moved /\ m[name].borrowers = <<>> /\ m[name].is_mutable
           [] kind = "Move"    -> ~m[name].moved /\ m[name].borrowers = <<>>
           [] OTHER            -> FALSE

\* mutant: the Mutable case does not look at is_mutable
can_borrow_MutableIgnoresMutability(m, name, kind) ==
    IF ~Registered(m, name) \/ m[name].moved THEN FALSE
    ELSE CASE kind = "Shared"  -> ~m[name].moved /\ m[name].borrowers = <<>>
           [] kind = "Mutable" -> ~m[name].moved /\ m[name].borrowers = <<>>
           [] kind = "Move"    -> ~m[name].moved /\ m[name].borrowers = <<>>
           [] OTHER            -> FALSE

\* OwnershipTracker::can_borrow
can_borrow(m, name, kind) ==
    IF ~Registered(m, name) \/ m[name].moved THEN FALSE
    ELSE CASE kind = "Shared"  -> ~m[name].moved /\ m[name].borrowers = <<>>
           [] kind = "Mutable" -> ~m[name].moved /\ m[name].borrowers = <<>> /\ m[name].is_mutable
           [] kind = "Move"    -> ~m[name].moved /\ m[name].borrowers = <<>>
           [] OTHER            -> FALSE

\* mutant: exit_scope erases the current level and every outer one
exit_scope_map_ErasesOuter(m, scope) ==
    [n \in {k \in DOMAIN m : m[k].scope_level > scope} |-> m[n]]

\* mutant: exit_scope also releases the borrows of the bindings it keeps
exit_scope_map_ReleasesBorrows(m, scope) ==
    [n \in {k \in DOMAIN m : m[k].scope_level # scope} |-> [m[n] EXCEPT !.borrowers = <<>>]]

\* the erase loop of OwnershipTracker::exit_scope
exit_scope_map(m, scope) ==
    [n \in {k \in DOMAIN m : m[k].scope_level # scope} |-> m[n]]

\* mutant: register_variable overwrites an existing entry
register_variable_result_Overwrites(m, scope, name, is_mut) ==
    [map |-> [n \in DOMAIN m \cup {name} |->
                 IF n = name THEN OwnershipData(is_mut, scope) ELSE m[n]],
     ret |-> ~Registered(m, name)]

\* OwnershipTracker::register_variable: the map afterwards and the value returned
register_variable_result(m, scope, name, is_mut) ==
    IF Registered(m, name)
    THEN [map |-> m, ret |-> FALSE]
    ELSE [map |-> [n \in DOMAIN m \cup {name} |->
                      IF n = name THEN OwnershipData(is_mut, scope) ELSE m[n]],
          ret |-> TRUE]

\* OwnershipTracker::register_borrow: the map afterwards and the value returned
register_borrow_result(m, var, borrower, kind) ==
    IF ~Registered(m, var) \/ ~can_borrow(m, var, kind)
    THEN [map |-> m, ret |-> FALSE]
    ELSE [map |-> [m EXCEPT ![var].borrowers = Append(@, borrower)], ret |-> TRUE]

\* mutant: mark_moved does not look at the moved flag or the borrowers
mark_moved_result_Unchecked(m, name) ==
    IF ~Registered(m, name)
    THEN [map |-> m, ret |-> FALSE]
    ELSE [map |-> [m EXCEPT ![name].moved = TRUE], ret |-> TRUE]

\* OwnershipTracker::mark_moved: the map afterwards and the value returned
mark_moved_result(m, name) ==
    IF ~Registered(m, name) \/ m[name].moved \/ m[name].borrowers # <<>>
    THEN [map |-> m, ret |-> FALSE]
    ELSE [map |-> [m EXCEPT ![name].moved = TRUE], ret |-> TRUE]

\* the history of borrow kinds follows the map: a name newly in the map starts
\* with none, a pushed borrower adds the kind it was registered with
KindsAfter(newmap, kind) ==
    [n \in DOMAIN newmap |->
        IF n \notin DOMAIN ownership_map THEN <<>>
        ELSE IF Len(newmap[n].borrowers) = Len(ownership_map[n].borrowers) + 1
             THEN Append(borrow_kinds[n], kind)
        ELSE IF Len(newmap[n].borrowers) = Len(ownership_map[n].borrowers)
             THEN borrow_kinds[n]
        ELSE <<>>]

\* the violation BorrowChecker::check_variable records
check_variable_violation(name) ==
    [type    |-> "BorrowWhileMutable",
     message |-> "Cannot borrow variable '" \o name \o "' - already mutably borrowed",
     line    |-> 0]

\* BorrowChecker::check_variable: the errors afterwards
check_variable_errors(errs, m, name) ==
    IF ~can_borrow(m, name, "Shared")
    THEN Append(errs, check_variable_violation(name))
    ELSE errs

NoCall == [op |-> "none"]

\* a freshly constructed OwnershipTracker and BorrowChecker
TrackerFresh ==
    /\ ownership_map = <<>>
    /\ current_scope = 0
    /\ errors = <<>>
    /\ last = NoCall
    /\ borrow_kinds = <<>>

\* a BorrowSet as constructed: nothing in the program adds to it
BorrowSetFresh == [location_map |-> <<>>, local_map |-> <<>>]

\* no compilation under way
PipelineIdle ==
    /\ source = <<>>
    /\ start = 0
    /\ current = 0
    /\ line = 1
    /\ tokens = <<>>
    /\ phase = "idle"
    /\ thrown = ""
    /\ ast = [kind |-> "none"]
    /\ check_ret = FALSE
    /\ borrow_set = BorrowSetFresh

\* no TokenIterator constructed
LexerIdle ==
    /\ input_ = <<>>
    /\ pos_ = 0
    /\ len_remaining_ = 0
    /\ lexed = <<>>
    /\ lexer_state = "idle"

\* a Parser as constructed
ParserFresh ==
    /\ parser_current = 0
    /\ declared_variables = {}
    /\ scope_depth = 0

\* an empty Vec, an Encoder that has emitted nothing, no BufferDecoder
LibraryFresh ==
    /\ vec = [ptr |-> <<>>, cap |-> 0, len |-> 0]
    /\ encoder = [ec |-> FALSE, bytes |-> <<>>, emitted |-> <<>>]
    /\ decoder = [data_ |-> <<>>, size_ |-> 0, pos_ |-> 0, read |-> <<>>]

TrackerInit ==
    /\ TrackerFresh
    /\ PipelineIdle
    /\ LexerIdle
    /\ ParserFresh
    /\ LibraryFresh

\* void enter_scope()
enter_scope ==
    /\ current_scope < MaxDepth
    /\ current_scope' = current_scope + 1
    /\ last' = [op |-> "enter_scope"]
    /\ UNCHANGED <<ownership_map, errors, borrow_kinds>>
    /\ UNCHANGED nonTrackerVars

\* void exit_scope()
exit_scope ==
    /\ current_scope > 0 - MaxUnderflow
    /\ ownership_map' = exit_scope_map(ownership_map, current_scope)
    /\ current_scope' = current_scope - 1
    /\ last' = [op |-> "exit_scope"]
    /\ borrow_kinds' = KindsAfter(ownership_map', "Shared")
    /\ UNCHANGED errors
    /\ UNCHANGED nonTrackerVars

\* bool register_variable(name, is_mut)
register_variable(name, is_mut) ==
    LET r == register_variable_result(ownership_map, current_scope, name, is_mut) IN
    /\ ownership_map' = r.map
    /\ last' = [op |-> "register_variable", name |-> name, ret |-> r.ret]
    /\ borrow_kinds' = KindsAfter(r.map, "Shared")
    /\ UNCHANGED <<current_scope, errors>>
    /\ UNCHANGED nonTrackerVars

\* bool register_borrow(var, borrower, kind)
register_borrow(var, borrower, kind) ==
    LET r == register_borrow_result(ownership_map, var, borrower, kind) IN
    /\ ownership_map' = r.map
    /\ last' = [op |-> "register_borrow", name |-> var, kind |-> kind, ret |-> r.ret]
    /\ borrow_kinds' = KindsAfter(r.map, kind)
    /\ UNCHANGED <<current_scope, errors>>
    /\ UNCHANGED nonTrackerVars

\* bool mark_moved(name)
mark_moved(name) ==
    LET r == mark_moved_result(ownership_map, name) IN
    /\ ownership_map' = r.map
    /\ last' = [op |-> "mark_moved", name |-> name, ret |-> r.ret]
    /\ borrow_kinds' = KindsAfter(r.map, "Move")
    /\ UNCHANGED <<current_scope, errors>>
    /\ UNCHANGED nonTrackerVars

\* void BorrowChecker::check_variable(expr), expr a Var(name) node
check_variable(name) ==
    /\ Len(errors) < MaxErrors
    /\ errors' = check_variable_errors(errors, ownership_map, name)
    /\ last' = [op |-> "check_variable", name |-> name]
    /\ UNCHANGED <<ownership_map, current_scope, borrow_kinds>>
    /\ UNCHANGED nonTrackerVars

Init == TrackerInit

\* one call of an OwnershipTracker operation on a name of N, with a borrower of B
TrackerCall(N, B) ==
    \/ enter_scope
    \/ exit_scope
    \/ \E name \in N, is_mut \in BOOLEAN : register_variable(name, is_mut)
    \/ \E var \in N, borrower \in B, kind \in BorrowKind :
          register_borrow(var, borrower, kind)
    \/ \E name \in N : mark_moved(name)

Next == TrackerCall(Names, Borrowers)

\* the OwnershipTracker under any sequence of calls
Spec == Init /\ [][Next]_vars

CheckerNext ==
    \/ TrackerCall(CheckedNames, Borrowers)
    \/ \E name \in CheckedNames : check_variable(name)

\* the BorrowChecker checking Var nodes against its tracker
CheckerSpec == Init /\ [][CheckerNext]_vars

(***************************************************************************)
(* Claims about the OwnershipTracker.                                      *)
(***************************************************************************)

\* the positions of borrow_kinds[n] registered with kind k
ActiveOfKind(n, k) == {i \in DOMAIN borrow_kinds[n] : borrow_kinds[n][i] = k}

\* the step just taken is the call op(n, ...)
Called(op, n) == last'.op = op /\ last'.name = n

\* C1: after any sequence of enter_scope, exit_scope, register_variable,
\* register_borrow and mark_moved calls, no binding has an active shared borrow
\* and an active mutable borrow at the same time, and no binding has more than
\* one active mutable borrow.
C1_BorrowExclusivity ==
    \A n \in DOMAIN ownership_map :
        /\ Len(borrow_kinds[n]) = Len(ownership_map[n].borrowers)
        /\ ~(ActiveOfKind(n, "Shared") # {} /\ ActiveOfKind(n, "Mutable") # {})
        /\ Cardinality(ActiveOfKind(n, "Mutable")) <= 1

\* C1 witness: one binding holds an active mutable borrow while another holds
\* an active shared borrow.
C1_Witness ==
    /\ DOMAIN ownership_map = {"x", "y"}
    /\ ownership_map["x"].borrowers # <<>> /\ borrow_kinds["x"] = <<"Mutable">>
    /\ ownership_map["y"].borrowers # <<>> /\ borrow_kinds["y"] = <<"Shared">>

\* C2 (as claimed): register_borrow(x, borrower, Shared) succeeds if and only if
\* x is registered, not moved and has no active mutable borrow; so it succeeds
\* while shared borrows of x are already active.
C2_SharedBorrowAsClaimed ==
    [][\A n \in Names :
          (Called("register_borrow", n) /\ last'.kind = "Shared")
          => (last'.ret <=> /\ Registered(ownership_map, n)
                            /\ ~ownership_map[n].moved
                            /\ ActiveOfKind(n, "Mutable") = {})]_vars

\* C3: register_borrow(x, borrower, Mutable) succeeds if and only if x is
\* registered, was registered as mutable, is not moved and has no active borrow
\* of any kind; when it fails the ownership map is left unchanged.
C3_MutableBorrow ==
    [][\A n \in Names :
          (Called("register_borrow", n) /\ last'.kind = "Mutable")
          => /\ last'.ret <=> /\ Registered(ownership_map, n)
                              /\ ownership_map[n].is_mutable
                              /\ ~ownership_map[n].moved
                              /\ ownership_map[n].borrowers = <<>>
             /\ ~last'.ret => ownership_map' = ownership_map
             /\ last'.ret => Len(ownership_map'[n].borrowers) = 1]_vars

\* C3 witness: a mutable borrow of a mutable binding has just succeeded.
C3_Witness ==
    /\ last.op = "register_borrow" /\ last.kind = "Mutable" /\ last.ret
    /\ ownership_map[last.name].is_mutable
    /\ borrow_kinds[last.name] = <<"Mutable">>

\* C4: mark_moved(x) succeeds if and only if x is registered, has no active
\* borrows and is not already moved; on success x.moved becomes true and nothing
\* else changes; on failure the ownership map is unchanged, so a second
\* mark_moved(x) on the same binding fails.
C4_MarkMoved ==
    [][\A n \in Names :
          Called("mark_moved", n)
          => /\ last'.ret <=> /\ Registered(ownership_map, n)
                              /\ ownership_map[n].borrowers = <<>>
                              /\ ~ownership_map[n].moved
             /\ last'.ret => /\ ownership_map' = [ownership_map EXCEPT ![n].moved = TRUE]
                             /\ current_scope' = current_scope
             /\ ~last'.ret => ownership_map' = ownership_map
             /\ (Registered(ownership_map, n) /\ ownership_map[n].moved) => ~last'.ret]_vars

\* C4 witness: a second mark_moved on an already moved binding has just failed.
C4_Witness ==
    /\ last.op = "mark_moved" /\ ~last.ret
    /\ Registered(ownership_map, last.name)
    /\ ownership_map[last.name].moved

\* C5 (as claimed): after mark_moved(x) succeeds, every later check of a Var(x)
\* node while x is in scope records a violation of type UseAfterMove with the
\* message "Cannot use 'x' after it has been moved", and no borrow or move of x
\* succeeds any more.
C5_UseAfterMoveAsClaimed ==
    [][\A n \in Names :
          (Registered(ownership_map, n) /\ ownership_map[n].moved)
          => /\ Called("check_variable", n)
                => /\ Len(errors') = Len(errors) + 1
                   /\ errors'[Len(errors')].type = "UseAfterMove"
                   /\ errors'[Len(errors')].message
                         = "Cannot use '" \o n \o "' after it has been moved"
             /\ (Called("register_borrow", n) \/ Called("mark_moved", n)) => ~last'.ret]_vars

\* C6: after exit_scope(), no binding whose scope_level equals the exited level
\* remains in the ownership map, and every binding registered at a lower level
\* is still present with its mutability, borrowers and moved flag unchanged.
C6_ExitScope ==
    [][last'.op = "exit_scope" /\ current_scope' = current_scope - 1
       => /\ \A n \in DOMAIN ownership_map' :
                ownership_map'[n].scope_level # current_scope
          /\ \A n \in DOMAIN ownership_map :
                ownership_map[n].scope_level < current_scope
                => /\ n \in DOMAIN ownership_map'
                   /\ ownership_map'[n] = ownership_map[n]]_vars

\* C6 witness: exit_scope has just returned to level 0 and a binding of level 0
\* that carries a borrower is still in the map.
C6_Witness ==
    /\ last.op = "exit_scope" /\ current_scope = 0
    /\ \E n \in DOMAIN ownership_map :
          ownership_map[n].scope_level = 0 /\ ownership_map[n].borrowers # <<>>

\* C7 (as claimed): the scope level is a non-negative integer in every reachable
\* state: enter_scope raises it by exactly one, exit_scope lowers it by exactly
\* one, and no sequence of enter_scope/exit_scope calls makes it negative.
C7_ScopeLevelAsClaimed ==
    [][/\ last'.op = "enter_scope" => current_scope' = current_scope + 1
       /\ last'.op = "exit_scope" => current_scope' = current_scope - 1
       /\ current_scope' >= 0]_vars

\* C8 (as claimed): a nested scope may shadow an outer name: register_variable
\* of a name registered only at an outer scope level succeeds.
C8_ShadowingAsClaimed ==
    [][\A n \in Names :
          (/\ Called("register_variable", n)
           /\ Registered(ownership_map, n)
           /\ ownership_map[n].scope_level < current_scope)
          => /\ last'.ret
             /\ ownership_map'[n].scope_level = current_scope]_vars

\* C9: re-declaring a name in the same scope is an error: register_variable
\* returns false when the name is already registered at the current scope level
\* and leaves the existing entry unchanged.
C9_Redeclaration ==
    [][\A n \in Names :
          (/\ Called("register_variable", n)
           /\ Registered(ownership_map, n)
           /\ ownership_map[n].scope_level = current_scope)
          => /\ ~last'.ret
             /\ n \in DOMAIN ownership_map'
             /\ ownership_map'[n] = ownership_map[n]]_vars

\* C9 witness: register_variable has just been refused for a name registered at
\* the current scope level, whose entry still carries its borrower.
C9_Witness ==
    /\ last.op = "register_variable" /\ ~last.ret
    /\ Registered(ownership_map, last.name)
    /\ ownership_map[last.name].scope_level = current_scope
    /\ ownership_map[last.name].borrowers # <<>>

Digits == {"0", "1", "2", "3", "4", "5", "6", "7", "8", "9"}

Letters ==
    {"a", "b", "c", "d", "e", "f", "g", "h", "i", "j", "k", "l", "m",
     "n", "o", "p", "q", "r", "s", "t", "u", "v", "w", "x", "y", "z",
     "A", "B", "C", "D", "E", "F", "G", "H", "I", "J", "K", "L", "M",
     "N", "O", "P", "Q", "R", "S", "T", "U", "V", "W", "X", "Y", "Z"}

\* '\0', which peek and peekNext return past the end of the source
NUL == ""

\* std::isdigit, std::isalpha, std::isalnum on the characters of the model
isdigit(c) == c \in Digits
isalpha(c) == c \in Letters
isalnum(c) == isalpha(c) \/ isdigit(c)

\* std::string built from a sequence of characters
RECURSIVE Str(_)
Str(chars) == IF chars = <<>> THEN "" ELSE Head(chars) \o Str(Tail(chars))

\* source.substr(pos, n)
substr(src, pos, n) == SubSeq(src, pos + 1, pos + n)

DigitValue(c) ==
    CASE c = "0" -> 0 [] c = "1" -> 1 [] c = "2" -> 2 [] c = "3" -> 3 [] c = "4" -> 4
      [] c = "5" -> 5 [] c = "6" -> 6 [] c = "7" -> 7 [] c = "8" -> 8 [] c = "9" -> 9

\* std::stoi on a run of decimal digits
RECURSIVE stoi(_)
stoi(chars) ==
    IF chars = <<>> THEN 0
    ELSE 10 * stoi(SubSeq(chars, 1, Len(chars) - 1)) + DigitValue(chars[Len(chars)])

\* Token(type, lexeme, line)
Token(type, lexeme, ln) == [type |-> type, lexeme |-> lexeme, line |-> ln]

\* Tokenizer::isAtEnd
tk_isAtEnd(src, cur) == cur >= Len(src)

\* Tokenizer::peek
tk_peek(src, cur) == IF tk_isAtEnd(src, cur) THEN NUL ELSE src[cur + 1]

\* Tokenizer::peekNext
tk_peekNext(src, cur) == IF cur + 1 >= Len(src) THEN NUL ELSE src[cur + 2]

\* while (std::isdigit(peek())) advance();
RECURSIVE eat_digits(_, _)
eat_digits(src, cur) ==
    IF isdigit(tk_peek(src, cur)) THEN eat_digits(src, cur + 1) ELSE cur

\* while (std::isalnum(peek()) || peek() == '_') advance();
RECURSIVE eat_word(_, _)
eat_word(src, cur) ==
    IF isalnum(tk_peek(src, cur)) \/ tk_peek(src, cur) = "_"
    THEN eat_word(src, cur + 1) ELSE cur

\* mutant: the comment is not skipped
skipComment_SkipsNothing(src, cur) == cur

\* Tokenizer::skipComment
RECURSIVE skipComment(_, _)
skipComment(src, cur) ==
    IF tk_peek(src, cur) # "\n" /\ ~tk_isAtEnd(src, cur)
    THEN skipComment(src, cur + 1) ELSE cur

\* Tokenizer::keywords, with Identifier for a word that is not in it
WordType(text) ==
    CASE text = "let"    -> "Let"
      [] text = "mut"    -> "Mut"
      [] text = "func"   -> "Func"
      [] text = "return" -> "Return"
      [] text = "if"     -> "If"
      [] text = "else"   -> "Else"
      [] OTHER           -> "Identifier"

\* Tokenizer::number, entered with the first digit consumed: the position
\* afterwards and the token added
number(src, st, cur, ln) ==
    LET c1 == eat_digits(src, cur) IN
    IF tk_peek(src, c1) = "." /\ isdigit(tk_peekNext(src, c1))
    THEN LET c2 == eat_digits(src, c1 + 1) IN
         [current |-> c2, token |-> Token("Float", substr(src, st, c2 - st), ln)]
    ELSE [current |-> c1,
          token |-> [type |-> "Integer", lexeme |-> substr(src, st, c1 - st), line |-> ln,
                     intValue |-> stoi(substr(src, st, c1 - st))]]

\* Tokenizer::identifier, entered with the first character consumed
identifier(src, st, cur, ln) ==
    LET c1 == eat_word(src, cur)
        text == substr(src, st, c1 - st) IN
    [current |-> c1, token |-> Token(WordType(Str(text)), text, ln)]

\* the token type of a one-character operator or delimiter of the switch
PunctType(c) ==
    CASE c = "(" -> "LeftParen"
      [] c = ")" -> "RightParen"
      [] c = "+" -> "Plus"
      [] c = "-" -> "Minus"
      [] c = "*" -> "Star"
      [] c = "=" -> "Equals"
      [] c = ";" -> "Semicolon"
      [] OTHER   -> "none"

\* one iteration of the loop of Tokenizer::tokenize at position cur: the
\* position and line afterwards, the tokens added and what is thrown, if anything
scan_token(src, cur, ln) ==
    LET c    == src[cur + 1]
        next == cur + 1
        one(type)  == [current |-> next, line |-> ln, thrown |-> "",
                       added |-> <<Token(type, substr(src, cur, 1), ln)>>]
        none(c2, l2) == [current |-> c2, line |-> l2, thrown |-> "", added |-> <<>>]
    IN
    IF PunctType(c) # "none" THEN one(PunctType(c))
    ELSE IF c = "/" THEN
        (IF tk_peek(src, next) = "/" THEN none(skipComment(src, next), ln) ELSE one("Slash"))
    ELSE IF c \in {" ", "\r", "\t"} THEN none(next, ln)
    ELSE IF c = "\n" THEN none(next, ln + 1)
    ELSE IF isdigit(c) THEN
        LET r == number(src, cur, next, ln) IN
        [current |-> r.current, line |-> ln, thrown |-> "", added |-> <<r.token>>]
    ELSE IF isalpha(c) \/ c = "_" THEN
        LET r == identifier(src, cur, next, ln) IN
        [current |-> r.current, line |-> ln, thrown |-> "", added |-> <<r.token>>]
    ELSE [current |-> next, line |-> ln, added |-> <<>>,
          thrown |-> "Unexpected character '" \o c \o "' at line " \o ToString(ln)]

(***************************************************************************)
(* Parser (node::Parser)                                                   *)
(***************************************************************************)

\* the AST nodes
IntExprAST(value) == [kind |-> "Int", value |-> value]
VariableExprAST(name, borrow_type) ==
    [kind |-> "Var", name |-> name, borrow_type |-> borrow_type]
LetExprAST(name, is_mut, init) ==
    [kind |-> "Let", name |-> name, is_mutable |-> is_mut, init |-> init]
BinaryExprAST(lhs, rhs, op) == [kind |-> "Binary", op |-> op, lhs |-> lhs, rhs |-> rhs]
NoNode == [kind |-> "none"]

\* Parser::peek
peek(toks, cur) == toks[cur + 1]

\* Parser::isAtEnd
isAtEnd(toks, cur) == peek(toks, cur).type = "EOF_TOKEN"

\* Parser::check_type
check_type(toks, cur, type) == ~isAtEnd(toks, cur) /\ peek(toks, cur).type = type

\* mutant: the parser's index is left where it was before the last token
Parsed_StaysPut(node, cur, decl) ==
    [ok |-> TRUE, node |-> node, cur |-> cur - 1, decl |-> decl, msg |-> "", read |-> FALSE]

\* a parsing function returned node with the parser at cur and decl declared.
\* read: whether it read a destroyed Token on the way (see ReadToken)
Parsed(node, cur, decl) ==
    [ok |-> TRUE, node |-> node, cur |-> cur, decl |-> decl, msg |-> "", read |-> FALSE]

\* mutant: nothing is thrown, and an empty node is returned
Threw_ReturnsEmpty(msg, cur, decl) ==
    [ok |-> TRUE, node |-> [kind |-> "none"], cur |-> cur, decl |-> decl, msg |-> "",
     read |-> FALSE]

\* a parsing function threw std::runtime_error(msg) with the parser at cur
Threw(msg, cur, decl) ==
    [ok |-> FALSE, node |-> NoNode, cur |-> cur, decl |-> decl, msg |-> msg, read |-> FALSE]

\* previous() returns a Token by value, and parse_primary keeps, as var_name,
\* a std::string_view of the lexeme of that temporary, which is destroyed at
\* the end of the declaration; declared_variables.find(var_name),
\* std::string(var_name) and declared_variables.insert(var_name) then read
\* destroyed storage. r after such a read (read), or after parsing that made
\* one
ReadToken(r, read) == [r EXCEPT !.read = @ \/ read]

RECURSIVE parse_primary(_, _, _)
RECURSIVE parse_term(_, _, _)
RECURSIVE parse_term_loop(_, _)
RECURSIVE parse_expression(_, _, _)
RECURSIVE parse_expression_loop(_, _)

\* Parser::parse_primary
parse_primary(toks, cur, decl) ==
    IF check_type(toks, cur, "Integer")
    THEN Parsed(IntExprAST(stoi(peek(toks, cur).lexeme)), cur + 1, decl)
    ELSE IF check_type(toks, cur, "Identifier")
    THEN LET var_name == Str(peek(toks, cur).lexeme) IN
         IF var_name \notin decl
         THEN ReadToken(Threw("Use of undeclared variable: " \o var_name, cur + 1, decl),
                        TRUE)
         ELSE ReadToken(Parsed(VariableExprAST(var_name, "Shared"), cur + 1, decl), TRUE)
    ELSE IF check_type(toks, cur, "LeftParen")
    THEN LET r == parse_expression(toks, cur + 1, decl) IN
         IF ~r.ok THEN r
         ELSE IF ~check_type(toks, r.cur, "RightParen")
         THEN ReadToken(Threw("Expect ')' after expression.", r.cur, r.decl), r.read)
         ELSE ReadToken(Parsed(r.node, r.cur + 1, r.decl), r.read)
    ELSE IF check_type(toks, cur, "Let")
    THEN IF ~check_type(toks, cur + 1, "Identifier")
         THEN Threw("Expect identifier after 'let'.", cur + 1, decl)
         ELSE LET var_name   == Str(peek(toks, cur + 1).lexeme)
                  is_mutable == check_type(toks, cur + 2, "Mut")
                  c3         == IF is_mutable THEN cur + 3 ELSE cur + 2
              IN
              IF ~check_type(toks, c3, "Equals")
              THEN Threw("Expect '=' after variable name.", c3, decl)
              ELSE LET r == parse_expression(toks, c3 + 1, decl) IN
                   IF ~r.ok THEN r
                   ELSE ReadToken(Parsed(LetExprAST(var_name, is_mutable, r.node), r.cur,
                                         r.decl \cup {var_name}),
                                  TRUE)
    ELSE Threw("Expect expression.", cur, decl)

\* the while loop of Parser::parse_term, entered with left parsed
parse_term_loop(toks, left) ==
    IF check_type(toks, left.cur, "Star") \/ check_type(toks, left.cur, "Slash")
    THEN LET op    == peek(toks, left.cur).lexeme[1]
             right == parse_primary(toks, left.cur + 1, left.decl) IN
         IF ~right.ok THEN ReadToken(right, left.read)
         ELSE parse_term_loop(toks,
                  ReadToken(Parsed(BinaryExprAST(left.node, right.node, op), right.cur,
                                   right.decl),
                            left.read \/ right.read))
    ELSE left

\* Parser::parse_term
parse_term(toks, cur, decl) ==
    LET expr == parse_primary(toks, cur, decl) IN
    IF ~expr.ok THEN expr ELSE parse_term_loop(toks, expr)

\* the while loop of Parser::parse_expression, entered with left parsed
parse_expression_loop(toks, left) ==
    IF check_type(toks, left.cur, "Plus") \/ check_type(toks, left.cur, "Minus")
    THEN LET op    == peek(toks, left.cur).lexeme[1]
             right == parse_term(toks, left.cur + 1, left.decl) IN
         IF ~right.ok THEN ReadToken(right, left.read)
         ELSE parse_expression_loop(toks,
                  ReadToken(Parsed(BinaryExprAST(left.node, right.node, op), right.cur,
                                   right.decl),
                            left.read \/ right.read))
    ELSE left

\* Parser::parse_expression
parse_expression(toks, cur, decl) ==
    LET expr == parse_term(toks, cur, decl) IN
    IF ~expr.ok THEN expr ELSE parse_expression_loop(toks, expr)

(***************************************************************************)
(* BorrowChecker (amyr-borrow-check/BorrowChecker.hpp)                     *)
(***************************************************************************)

\* mutant: every mutable borrow on record counts as live, activated or not
check_borrow_AnyMutable(errs, borrow) ==
    IF borrow.kind = "Mutable"
    THEN Append(errs,
            [type    |-> "BorrowWhileMutable",
             message |-> "Cannot mutably borrow '" \o borrow.borrowed_place
                             \o "' while it is already borrowed",
             line    |-> borrow.reserve_location.line])
    ELSE errs

\* BorrowChecker::check_borrow: the errors afterwards
check_borrow(errs, borrow) ==
    IF borrow.kind = "Mutable" /\ borrow.activation_location = "ActivatedAt"
    THEN Append(errs,
            [type    |-> "BorrowWhileMutable",
             message |-> "Cannot mutably borrow '" \o borrow.borrowed_place
                             \o "' while it is already borrowed",
             line    |-> borrow.reserve_location.line])
    ELSE errs

\* the loop of BorrowChecker::check_variable over the borrow indexes of a local
RECURSIVE check_borrows(_, _, _)
check_borrows(errs, bs, indexes) ==
    IF indexes = {} THEN errs
    ELSE LET i == CHOOSE k \in indexes : \A j \in indexes : k <= j IN
         check_borrows(check_borrow(errs, bs.location_map[i + 1]), bs, indexes \ {i})

\* BorrowChecker::check_variable, which looks the name up in borrow_set.local_map
check_variable_in_borrow_set(errs, bs, name) ==
    IF name \in DOMAIN bs.local_map
    THEN check_borrows(errs, bs, bs.local_map[name])
    ELSE errs

\* mutant: the first violation ends the traversal
RECURSIVE check_expr_StopsAtFirst(_, _, _)
check_expr_StopsAtFirst(errs, bs, expr) ==
    IF errs # <<>> THEN errs
    ELSE IF expr.kind = "Binary"
    THEN check_expr_StopsAtFirst(check_expr_StopsAtFirst(errs, bs, expr.lhs), bs, expr.rhs)
    ELSE IF expr.kind = "Var"
    THEN LET found == check_variable_in_borrow_set(errs, bs, expr.name) IN
         IF found = <<>> THEN found ELSE <<found[1]>>
    ELSE errs

\* BorrowChecker::check_expr: the errors afterwards
RECURSIVE check_expr(_, _, _)
check_expr(errs, bs, expr) ==
    IF expr.kind = "Binary"
    THEN check_expr(check_expr(errs, bs, expr.lhs), bs, expr.rhs)
    ELSE IF expr.kind = "Var"
    THEN check_variable_in_borrow_set(errs, bs, expr.name)
    ELSE errs

\* BorrowChecker::check: errors.clear(), check_expr; the errors afterwards
check_errors(bs, tree) == check_expr(<<>>, bs, tree)

\* check_expr casts the children of a Binary node. parse_term and
\* parse_expression hand BinaryExprAST the raw pointers of shared_ptr operands
\* that are released as soon as the node is built, so those children dangle.
ReadsDangling(tree) == tree.kind = "Binary"

\* mutant: the prefix names the line of the first token
LinePrefixed_FirstLine(toks, cur, what) ==
    "Line " \o ToString(peek(toks, 0).line) \o ": " \o what

\* the catch clause of Parser::parse: what it throws for e.what() = what
LinePrefixed(toks, cur, what) ==
    "Line " \o ToString(peek(toks, cur).line) \o ": " \o what

\* the rest of Parser::parse once parse_expression has returned or thrown r:
\* check_borrow_violations, and the catch clause. dangling: the behaviour of
\* the call is undefined, for parse_expression read a destroyed Token, or the
\* check read the children of a Binary node, which are destroyed by then.
check_borrow_violations(toks, r) ==
    IF ~r.ok
    THEN [r EXCEPT !.msg = LinePrefixed(toks, r.cur, r.msg)] @@ [dangling |-> r.read]
    ELSE LET errs == check_errors(BorrowSetFresh, r.node) IN
         IF errs # <<>>
         THEN Threw(LinePrefixed(toks, r.cur, errs[1].message), r.cur, r.decl)
                  @@ [dangling |-> r.read \/ ReadsDangling(r.node)]
         ELSE r @@ [dangling |-> r.read \/ ReadsDangling(r.node)]

\* Parser::parse with the parser at cur and decl declared
parse_at(toks, cur, decl) ==
    check_borrow_violations(toks, parse_expression(toks, cur, decl))

\* Parser::parse with a freshly constructed parser on toks: the tree returned
\* or the message thrown
parse(toks) ==
    LET r == parse_at(toks, 0, {}) IN [ok |-> r.ok, node |-> r.node, msg |-> r.msg]

(***************************************************************************)
(* The pipeline Tokenizer -> Parser -> BorrowChecker::check                *)
(***************************************************************************)

\* ParserTest.BasicParsing
Source_BasicParsing ==
    <<"l", "e", "t", " ", "x", " ", "=", " ", "4", "2", ";">>

\* BorrowCheckerTest.BasicBorrowChecking, the undefined variable
Source_Undeclared ==
    <<"l", "e", "t", " ", "x", " ", "=", " ", "y", ";">>

\* BorrowCheckerTest.BasicBorrowChecking, the mutable binding
Source_LetMut ==
    <<"l", "e", "t", " ", "m", "u", "t", " ", "x", " ", "=", " ", "4", "2",
      ";">>

\* the shared borrow followed by a mutable borrow, on one line
Source_SharedThenMutable ==
    <<"l", "e", "t", " ", "m", "u", "t", " ", "x", " ", "=", " ", "4", "2",
      ";", " ", "l", "e", "t", " ", "y", " ", "=", " ", "&", "x", ";", " ",
      "l", "e", "t", " ", "z", " ", "=", " ", "&", "m", "u", "t", " ", "x",
      ";">>

\* BorrowCheckerTest.BasicBorrowChecking, the raw string of the test
Source_MultipleBorrows ==
    <<"\n", " ", " ", " ", " ", " ", " ", " ", " ", "l", "e", "t", " ", "m",
      "u", "t", " ", "x", " ", "=", " ", "4", "2", ";", "\n", " ", " ", " ",
      " ", " ", " ", " ", " ", "l", "e", "t", " ", "y", " ", "=", " ", "&",
      "x", ";", " ", " ", "/", "/", " ", "O", "K", ":", " ", "s", "h", "a",
      "r", "e", "d", " ", "b", "o", "r", "r", "o", "w", "\n", " ", " ", " ",
      " ", " ", " ", " ", " ", "l", "e", "t", " ", "z", " ", "=", " ", "&",
      "m", "u", "t", " ", "x", ";", " ", " ", "/", "/", " ", "E", "r", "r",
      "o", "r", ":", " ", "c", "a", "n", "n", "o", "t", " ", "h", "a", "v",
      "e", " ", "m", "u", "t", "a", "b", "l", "e", " ", "b", "o", "r", "r",
      "o", "w", " ", "w", "h", "i", "l", "e", " ", "s", "h", "a", "r", "e",
      "d", "\n", " ", " ", " ", " ">>

\* IRGeneratorTest.BasicIRGeneration
Source_Sum ==
    <<"1", " ", "+", " ", "2">>

\* IntegrationTest.CompleteCompilation
Source_CompleteCompilation ==
    <<"\n", " ", " ", " ", " ", " ", " ", " ", " ", "l", "e", "t", " ", "x",
      " ", "=", " ", "4", "0", ";", "\n", " ", " ", " ", " ", " ", " ", " ",
      " ", "l", "e", "t", " ", "y", " ", "=", " ", "2", ";", "\n", " ", " ",
      " ", " ", " ", " ", " ", " ", "x", " ", "+", " ", "y", "\n", " ", " ",
      " ", " ">>

\* ErrorHandlingTest.TokenizerErrors
Source_Invalid ==
    <<"@">>

\* ErrorHandlingTest.ParserErrors
Source_LetOnly ==
    <<"l", "e", "t", ";">>

\* an initialiser that uses every operator and a parenthesis
Source_Arithmetic ==
    <<"l", "e", "t", " ", "x", " ", "=", " ", "(", "1", " ", "+", " ", "2",
      ")", " ", "*", " ", "3", " ", "-", " ", "4", " ", "/", " ", "2">>

\* a float literal and a comment
Source_Float ==
    <<"1", ".", "5", " ", "/", "/", " ", "c">>

\* the sources of the tests and of the examples
TestSources ==
    {Source_BasicParsing, Source_Undeclared, Source_LetMut, Source_SharedThenMutable,
     Source_MultipleBorrows, Source_Sum, Source_CompleteCompilation, Source_Invalid,
     Source_LetOnly, Source_Arithmetic, Source_Float}

\* every source of at most MaxSourceLen characters of SourceAlphabet
MaxSourceLen == 2
SourceAlphabet == {"7", "x", "_", "+", "/", ".", " ", "\n", "&", "("}
ShortSources == UNION {[1..n -> SourceAlphabet] : n \in 0..MaxSourceLen}

\* sources with a character the tokenizer has no case for inside and after a
\* comment, with the braces, with every operator and delimiter, and with every
\* keyword next to other words
TokenizerSources ==
    {<<"7", " ", "/", "/", " ", "@", "\n", "@">>,
     <<"{">>,
     <<"x", "\n", "}">>,
     <<"(", ")", "+", "-", "*", "/", "=", ";">>,
     <<"l", "e", "t", " ", "m", "u", "t", "\n", "f", "u", "n", "c", " ",
       "r", "e", "t", "u", "r", "n", "\t", "/", "/", " ", "i", "f", "\n",
       "i", "f", " ", "e", "l", "s", "e", "\r", "\n",
       "l", "e", "t", "s", " ", "_", "i", "f", "1", " ", "4", "2", "x">>}

Sources == TestSources \cup ShortSources \cup TokenizerSources

\* the variables of the tracker that a compilation leaves alone
nonPipelineVars ==
    <<ownership_map, current_scope, last, borrow_kinds, lexerVars, parserVars, libraryVars>>

\* Tokenizer tokenizer(source), checker constructed
PipelineInit ==
    /\ TrackerFresh
    /\ source \in Sources
    /\ start = 0
    /\ current = 0
    /\ line = 1
    /\ tokens = <<>>
    /\ phase = "tokenizing"
    /\ thrown = ""
    /\ ast = NoNode
    /\ check_ret = FALSE
    /\ borrow_set = BorrowSetFresh
    /\ LexerIdle
    /\ ParserFresh
    /\ LibraryFresh

\* one iteration of the while loop of Tokenizer::tokenize
tokenize_step ==
    /\ phase = "tokenizing"
    /\ ~tk_isAtEnd(source, current)
    /\ LET r == scan_token(source, current, line) IN
       /\ start' = current
       /\ current' = r.current
       /\ line' = r.line
       /\ tokens' = tokens \o r.added
       /\ thrown' = r.thrown
       /\ phase' = IF r.thrown # "" THEN "failed" ELSE "tokenizing"
    /\ UNCHANGED <<source, ast, check_ret, borrow_set, errors>>
    /\ UNCHANGED nonPipelineVars

\* the end of Tokenizer::tokenize: the EOF token is added and the tokens returned
tokenize_end ==
    /\ phase = "tokenizing"
    /\ tk_isAtEnd(source, current)
    /\ tokens' = Append(tokens, Token("EOF_TOKEN", <<>>, line))
    /\ phase' = "tokenized"
    /\ UNCHANGED <<source, start, current, line, thrown, ast, check_ret, borrow_set, errors>>
    /\ UNCHANGED nonPipelineVars

\* Parser parser(std::move(tokens)); parser.parse()
parser_parse ==
    /\ phase = "tokenized"
    /\ LET r == parse(tokens) IN
       /\ ast' = r.node
       /\ thrown' = r.msg
       /\ phase' = IF r.ok THEN "parsed" ELSE "failed"
    /\ UNCHANGED <<source, start, current, line, tokens, check_ret, borrow_set, errors>>
    /\ UNCHANGED nonPipelineVars

\* parser.parse() when parse_primary reads a destroyed Token or
\* check_borrow_violations a dangling child: the behaviour is undefined, and
\* the run may end there
parser_parse_undefined ==
    /\ phase = "tokenized"
    /\ parse_at(tokens, 0, {}).dangling
    /\ phase' = "crashed"
    /\ UNCHANGED <<source, start, current, line, tokens, thrown, ast, check_ret,
                   borrow_set, errors>>
    /\ UNCHANGED nonPipelineVars

\* checker.check(ast.get())
checker_check ==
    /\ phase = "parsed"
    /\ errors' = check_errors(borrow_set, ast)
    /\ check_ret' = (errors' = <<>>)
    /\ phase' = "checked"
    /\ UNCHANGED <<source, start, current, line, tokens, thrown, ast, borrow_set>>
    /\ UNCHANGED nonPipelineVars

\* checker.check(ast.get()) when check_expr reads a dangling child: the
\* behaviour is undefined, and the run may end there
checker_check_undefined ==
    /\ phase = "parsed"
    /\ ReadsDangling(ast)
    /\ phase' = "crashed"
    /\ UNCHANGED <<source, start, current, line, tokens, thrown, ast, check_ret,
                   borrow_set, errors>>
    /\ UNCHANGED nonPipelineVars

PipelineNext ==
    \/ tokenize_step
    \/ tokenize_end
    \/ parser_parse
    \/ parser_parse_undefined
    \/ checker_check
    \/ checker_check_undefined

\* the compilation of one source: tokenize, parse, check
PipelineSpec == PipelineInit /\ [][PipelineNext]_vars

\* the compilation has ended: an exception, a crash or the result of check
PipelineDone == phase \in {"failed", "crashed", "checked"}

(***************************************************************************)
(* Claims about the pipeline.                                              *)
(***************************************************************************)

\* message is one of the checker's BorrowWhileMutable messages, naming n
NamesBinding(message, n) ==
    message \in {"Cannot mutably borrow '" \o n \o "' while it is already borrowed",
                 "Cannot borrow variable '" \o n \o "' - already mutably borrowed"}

\* C10 (as claimed): for the program that declares a mutable x, takes a shared
\* borrow of x and then a mutable borrow of x, the pipeline Tokenizer -> Parser
\* -> BorrowChecker::check ends with check returning false and exactly one
\* violation, of type BorrowWhileMutable, whose message names x.
C10_SharedThenMutableAsClaimed ==
    (source \in {Source_SharedThenMutable, Source_MultipleBorrows} /\ PipelineDone)
    => /\ phase = "checked"
       /\ ~check_ret
       /\ Len(errors) = 1
       /\ errors[1].type = "BorrowWhileMutable"
       /\ NamesBinding(errors[1].message, "x")

(***************************************************************************)
(* BorrowChecker::check called again and again on one checker              *)
(***************************************************************************)

\* the two revisions of BorrowChecker::check in the repository: the class of
\* BorrowChecker.hpp, which consults its BorrowSet, and BorrowChecker.cpp,
\* which consults its OwnershipTracker
CheckerRevisions == {"BorrowChecker.hpp", "BorrowChecker.cpp"}

\* BorrowChecker::check_expr and check_binary of BorrowChecker.cpp: the errors
\* afterwards
RECURSIVE check_expr_errors(_, _, _)
check_expr_errors(errs, m, expr) ==
    IF expr.kind = "Binary"
    THEN check_expr_errors(check_expr_errors(errs, m, expr.lhs), m, expr.rhs)
    ELSE IF expr.kind = "Var"
    THEN check_variable_errors(errs, m, expr.name)
    ELSE errs

\* mutant: check does not clear the errors of the earlier calls
tracker_check_errors_KeepsErrors(m, tree) == check_expr_errors(errors, m, tree)

\* BorrowChecker::check of BorrowChecker.cpp: clear_errors(), check_expr; the
\* errors afterwards
tracker_check_errors(m, tree) == check_expr_errors(<<>>, m, tree)

\* the trees check is called with: literals, variables, a let, and sums of them
\* two levels deep
CheckTrees ==
    LET leaves == {IntExprAST(1), VariableExprAST("x", "Shared"),
                   VariableExprAST("y", "Shared")}
        level1 == leaves
                    \cup {BinaryExprAST(l, r, "+") : l \in leaves, r \in leaves}
                    \cup {LetExprAST("x", FALSE, l) : l \in leaves}
    IN level1 \cup {BinaryExprAST(l, r, "+") : l \in level1, r \in level1}

\* a checker of either revision as constructed
RecheckInit ==
    /\ ownership_map = <<>>
    /\ current_scope = 0
    /\ errors = <<>>
    /\ borrow_kinds = <<>>
    /\ \E revision \in CheckerRevisions :
          last = [op |-> "constructed", revision |-> revision]
    /\ PipelineIdle
    /\ LexerIdle
    /\ ParserFresh
    /\ LibraryFresh

\* bool BorrowChecker::check(ast), on a tree whose nodes are alive
check(tree) ==
    /\ errors' = IF last.revision = "BorrowChecker.hpp"
                 THEN check_errors(borrow_set, tree)
                 ELSE tracker_check_errors(ownership_map, tree)
    /\ check_ret' = (errors' = <<>>)
    /\ ast' = tree
    /\ last' = [op |-> "check", revision |-> last.revision, before |-> errors]
    /\ UNCHANGED <<ownership_map, current_scope, borrow_kinds>>
    /\ UNCHANGED <<tokenizerVars, phase, thrown, borrow_set, lexerVars, parserVars, libraryVars>>

RecheckNext == \E tree \in CheckTrees : check(tree)

\* one checker, check called on one tree after another
RecheckSpec == RecheckInit /\ [][RecheckNext]_vars

MaxInputLen == 3
\* the number of calls of TokenIterator::next that are explored
MaxNextCalls == 5
\* the most characters after the base prefix of a literal that are explored
MaxDigits == 2
\* the most characters after the 'r' of a raw string that are explored, and
\* the largest n_hashes an indeterminate Result is explored with
MaxRawLen == 6
\* the most characters after "#!" that are explored
MaxTailLen == 4

\* the characters of the inputs the lexer is explored with; advance_token is
\* modelled for these first characters
LexAlphabet == {"7", "x", "/", "*", " ", "\n", ".", ";", "\\"}

\* Cursor::first_peek and second_peek, which the lexer calls first() and second()
first(inp, pos) == IF pos < Len(inp) THEN inp[pos + 1] ELSE NUL
second(inp, pos) == IF pos + 1 < Len(inp) THEN inp[pos + 2] ELSE NUL

\* Cursor::is_eof
is_eof(inp, pos) == pos >= Len(inp)

\* the characters of inp
chars_of(inp) == {inp[i] : i \in DOMAIN inp}

\* Cursor::eat_while: the position afterwards. predicate: the characters of inp
\* the predicate holds of
eat_while(inp, pos, predicate) ==
    CHOOSE p \in pos..Len(inp) :
        /\ is_eof(inp, p) \/ inp[p + 1] \notin predicate
        /\ \A q \in pos..(p - 1) : inp[q + 1] \in predicate

is_whitespace(c) == c \in {"\t", "\n", "\f", "\r", " "}
\* mutant: no letter starts an identifier
is_id_start_OnlyUnderscore(c) == c = "_"

is_id_start(c) == c = "_" \/ c \in Letters
is_id_continue(c) == c \in Letters \/ c \in Digits \/ c = "_"

\* eat_decimal_digits and eat_hexadecimal_digits, were an underscore to count
\* as a digit
eat_digits_of_CountsUnderscores(inp, pos, is_digit) ==
    LET p == eat_while(inp, pos, is_digit \cup {"_"}) IN
    [pos |-> p, has_digits |-> p > pos]

\* eat_decimal_digits and eat_hexadecimal_digits: the position afterwards and
\* the value returned
eat_digits_of(inp, pos, is_digit) ==
    LET p == eat_while(inp, pos, is_digit \cup {"_"}) IN
    [pos |-> p, has_digits |-> \E q \in pos..(p - 1) : inp[q + 1] \in is_digit]
eat_decimal_digits(inp, pos) ==
    eat_digits_of(inp, pos, {c \in chars_of(inp) : isdigit(c)})
eat_hexadecimal_digits(inp, pos) ==
    eat_digits_of(inp, pos,
        {c \in chars_of(inp) : isdigit(c) \/ c \in {"a", "b", "c", "d", "e", "f",
                                                    "A", "B", "C", "D", "E", "F"}})

\* eat_float_exponent
eat_float_exponent(inp, pos) ==
    eat_decimal_digits(inp, IF first(inp, pos) \in {"+", "-"} THEN pos + 1 ELSE pos)

\* eat_identifier: the position afterwards
eat_identifier(inp, pos) ==
    IF ~is_id_start(first(inp, pos)) THEN pos
    ELSE eat_while(inp, pos + 1, {c \in chars_of(inp) : is_id_continue(c)})

\* number(cursor, first_char), entered with first_char consumed: the position
\* afterwards and the LiteralKind returned
lex_number(inp, pos, first_char) ==
    LET IntLit(base, empty) == [kind |-> "Int", base |-> base, empty_int |-> empty]
        FloatLit(base, empty) ==
            [kind |-> "Float", base |-> base, empty_exponent |-> empty]
        next0 == first(inp, pos)
        based(base, d) == [base |-> base, pos |-> d.pos, ret |-> ~d.has_digits, empty |-> TRUE]
        decimal(p, ret) == [base |-> "Decimal", pos |-> p, ret |-> ret, empty |-> FALSE]
        \* the switch on the character after a leading 0
        prefix ==
            IF first_char # "0" THEN decimal(eat_decimal_digits(inp, pos).pos, FALSE)
            ELSE IF next0 = "b" THEN based("Binary", eat_decimal_digits(inp, pos + 1))
            ELSE IF next0 = "o" THEN based("Octal", eat_decimal_digits(inp, pos + 1))
            ELSE IF next0 = "x"
            THEN based("Hexadecimal", eat_hexadecimal_digits(inp, pos + 1))
            ELSE IF next0 = "_" \/ isdigit(next0)
            THEN decimal(eat_decimal_digits(inp, pos).pos, FALSE)
            ELSE IF next0 \in {".", "e", "E"} THEN decimal(pos, FALSE)
            ELSE decimal(pos, TRUE)
        p    == prefix.pos
        next == first(inp, p)
    IN
    IF prefix.ret THEN [pos |-> p, kind |-> IntLit(prefix.base, prefix.empty)]
    ELSE IF next = "." /\ second(inp, p) # "." /\ ~is_id_start(second(inp, p))
    THEN IF isdigit(first(inp, p + 1))
         THEN LET p2 == eat_decimal_digits(inp, p + 1).pos IN
              IF first(inp, p2) \in {"e", "E"}
              THEN LET x == eat_float_exponent(inp, p2 + 1) IN
                   [pos |-> x.pos, kind |-> FloatLit(prefix.base, ~x.has_digits)]
              ELSE [pos |-> p2, kind |-> FloatLit(prefix.base, FALSE)]
         ELSE [pos |-> p + 1, kind |-> FloatLit(prefix.base, FALSE)]
    ELSE IF next \in {"e", "E"}
    THEN LET x == eat_float_exponent(inp, p + 1) IN
         [pos |-> x.pos, kind |-> FloatLit(prefix.base, ~x.has_digits)]
    ELSE [pos |-> p, kind |-> IntLit(prefix.base, FALSE)]

\* the doc style line_comment and block_comment work out, at the character
\* after the comment opener; mark is the opener's second character
doc_style(inp, pos, mark) ==
    IF first(inp, pos) = "!" THEN "Inner"
    ELSE IF first(inp, pos) = mark /\ second(inp, pos) # mark
            /\ (mark = "/" \/ second(inp, pos) # "/")
    THEN "Outer"
    ELSE "none"

\* line_comment, entered at the second '/': the position afterwards and the kind
line_comment(inp, pos) ==
    [pos  |-> eat_while(inp, pos + 1, chars_of(inp) \ {"\n"}),
     kind |-> [kind |-> "LineComment", doc_style |-> doc_style(inp, pos + 1, "/")]]

\* the loop of block_comment, `while (auto c = cursor.bump())`, at nesting depth
\* where: the position after the closing "*/", or -1 when the input ends first.
\* bump() returns EOF_CHAR, not an empty optional, at the end of the input, so
\* there the loop goes on for ever.
RECURSIVE block_comment_loop(_, _, _)
block_comment_loop(inp, pos, depth) ==
    IF is_eof(inp, pos) THEN 0 - 1
    ELSE LET c == inp[pos + 1] IN
         IF c = "/" /\ first(inp, pos + 1) = "*"
         THEN block_comment_loop(inp, pos + 2, depth + 1)
         ELSE IF c = "*" /\ first(inp, pos + 1) = "/"
         THEN IF depth - 1 = 0 THEN pos + 2
              ELSE block_comment_loop(inp, pos + 2, depth - 1)
         ELSE block_comment_loop(inp, pos + 1, depth)

\* double_quoted_string, entered after the opening quote: the position after
\* the closing quote, or -1 when the input ends first. bump() returns EOF_CHAR,
\* not an empty optional, at the end of the input, so there the loop goes on
\* for ever.
RECURSIVE double_quoted_string(_, _)
double_quoted_string(inp, pos) ==
    IF is_eof(inp, pos) THEN 0 - 1
    ELSE IF inp[pos + 1] = "\"" THEN pos + 1
    ELSE IF inp[pos + 1] = "\\" /\ first(inp, pos + 1) \in {"\\", "\""}
    THEN double_quoted_string(inp, pos + 2)
    ELSE double_quoted_string(inp, pos + 1)

\* raw_string_unvalidated, entered after the 'r': the position afterwards and
\* the Result returned. The test for InvalidStarter, `!quote.has_value() &&
\* quote.value() != '"'`, is never true, bump() always returning a value; the
\* branch `n_end_hashes > n_start_hashes` is never taken either.
raw_string_unvalidated(inp, pos) ==
    LET hashes(p, most) ==                       \* the '#' eaten from p, at most `most`
            LET e == eat_while(inp, p, {"#"}) IN IF e - p > most THEN most ELSE e - p
        n_start_hashes == hashes(pos, Len(inp))
        started == IF is_eof(inp, pos + n_start_hashes) THEN pos + n_start_hashes
                   ELSE pos + n_start_hashes + 1       \* quote = cursor.bump()
        RECURSIVE loop(_)
        loop(p) ==
            LET q == eat_while(inp, p, chars_of(inp) \ {"\""}) IN  \* eat_until('"')
            IF is_eof(inp, q)
            THEN [pos |-> q, ok |-> FALSE, n_hashes |-> 0,
                  err |-> [kind |-> "NoTerminator", expected |-> n_start_hashes,
                           found |-> 0, possible_terminator_offset |-> "none"]]
            ELSE IF hashes(q + 1, n_start_hashes) = n_start_hashes
            THEN [pos |-> q + 1 + n_start_hashes, ok |-> TRUE,
                  n_hashes |-> n_start_hashes, err |-> "none"]
            ELSE loop(q + 1 + hashes(q + 1, n_start_hashes))
    IN loop(started)

\* the punctuation cases of the switch of advance_token
PunctKind(c) ==
    CASE c = ";" -> "Semi"         [] c = "," -> "Comma"       [] c = "." -> "Dot"
      [] c = "(" -> "OpenParen"    [] c = ")" -> "CloseParen"  [] c = "{" -> "OpenBrace"
      [] c = "}" -> "CloseBrace"   [] c = "[" -> "OpenBracket" [] c = "]" -> "CloseBracket"
      [] c = "@" -> "At"           [] c = "#" -> "Pound"       [] c = "~" -> "Tilde"
      [] c = "?" -> "Question"     [] c = ":" -> "Colon"       [] c = "$" -> "Dollar"
      [] c = "=" -> "Eq"           [] c = "!" -> "Bang"        [] c = "<" -> "Lt"
      [] c = ">" -> "Gt"           [] c = "-" -> "Minus"       [] c = "&" -> "And"
      [] c = "|" -> "Or"           [] c = "+" -> "Plus"        [] c = "*" -> "Star"
      [] c = "^" -> "Caret"        [] c = "%" -> "Percent"     [] OTHER   -> "none"

\* Token(kind, len) of the lexer
LexToken(kind, len) == [kind |-> kind, len |-> len]

\* advance_token(cursor) with the cursor at pos and len_remaining_ = rem: the
\* token returned and the cursor afterwards. hangs: the call never returns;
\* undefined: the call runs eat_literal_suffix, a bool function that flows off
\* its end without a return statement, or raw_double_quoted_string, which
\* builds its Result and flows off its end without returning it; the token is
\* then the one the code means to return.
advance_token(inp, pos, rem) ==
    LET first_char == first(inp, pos)                        \* what bump() returned
        p0 == IF is_eof(inp, pos) THEN pos ELSE pos + 1      \* pos_ after bump()
        \* pos_within_token() with the cursor at p: every bump since the call
        \* began has decremented len_remaining_
        pos_within_token(p) == Len(inp) - (rem - (p - pos))
        returns(kind, p, undefined) ==
            [hangs |-> FALSE, undefined |-> undefined,
             token |-> LexToken(kind, pos_within_token(p)),
             pos |-> p,
             len_remaining |-> Len(inp) - p]                 \* reset_pos_within_token()
        plain(name, p) == returns([kind |-> name], p, FALSE)
    IN
    IF first_char = "/" THEN
        IF first(inp, p0) = "/"
        THEN LET r == line_comment(inp, p0) IN returns(r.kind, r.pos, FALSE)
        ELSE IF first(inp, p0) = "*"
        THEN LET end == block_comment_loop(inp, p0 + 1, 1) IN
             IF end < 0 THEN [hangs |-> TRUE, undefined |-> FALSE]
             ELSE returns([kind |-> "BlockComment",
                           doc_style |-> doc_style(inp, p0 + 1, "*"),
                           terminated |-> TRUE], end, FALSE)
        ELSE plain("Slash", p0)
    ELSE IF is_whitespace(first_char)
    THEN plain("Whitespace", eat_while(inp, p0, {c \in chars_of(inp) : is_whitespace(c)}))
    ELSE IF first_char = "r" /\ first(inp, p0) = "#" /\ is_id_start(second(inp, p0))
    THEN plain("RawIdent", eat_identifier(inp, p0 + 1))
    ELSE IF first_char = "r" /\ first(inp, p0) \in {"#", "\""}
    THEN LET r == raw_string_unvalidated(inp, p0) IN
         returns([kind |-> "Literal",
                  literal |-> [kind |-> "RawStr", n_hashes |-> r.n_hashes],
                  suffix_start |-> pos_within_token(r.pos)],
                 IF r.ok THEN eat_identifier(inp, r.pos) ELSE r.pos, TRUE)
    ELSE IF first_char = "\""
    THEN LET end == double_quoted_string(inp, p0) IN
         IF end < 0 THEN [hangs |-> TRUE, undefined |-> FALSE]
         ELSE returns([kind |-> "Literal",
                       literal |-> [kind |-> "Str", terminated |-> TRUE],
                       suffix_start |-> pos_within_token(end)],
                      eat_identifier(inp, end), TRUE)
    ELSE IF isdigit(first_char)
    THEN LET r == lex_number(inp, p0, first_char) IN
         returns([kind |-> "Literal", literal |-> r.kind,
                  suffix_start |-> pos_within_token(r.pos)],
                 eat_identifier(inp, r.pos), TRUE)
    ELSE IF PunctKind(first_char) # "none" THEN plain(PunctKind(first_char), p0)
    ELSE IF is_id_start(first_char)
    THEN \* ident_or_unknown_prefix
         LET p == eat_while(inp, p0, {c \in chars_of(inp) : is_id_continue(c)}) IN
         IF first(inp, p) \in {"#", "'", "\""} THEN plain("UnknownPrefix", p)
         ELSE plain("Ident", p)
    ELSE plain("Unknown", p0)

\* the inputs the lexer is explored with: every input over LexAlphabet, the
\* literals with a base prefix and up to MaxDigits characters after it, an
\* 'r' with up to MaxRawLen characters of a raw string after it, "#" and "#!"
\* with up to MaxTailLen characters after them, `1.foo`, `0..2`, `0.2`, `12.`,
\* and a '"' with up to MaxInputLen characters of a string after it
LexInputs ==
    LET digits == UNION {[1..n -> {"_", "1", "7", "f"}] : n \in 0..MaxDigits}
        rest   == UNION {[1..n -> {"#", "\"", "a"}] : n \in 0..MaxRawLen}
        tail   == UNION {[1..n -> {"[", " ", "\n", "/", "*", "7"}] : n \in 0..MaxTailLen}
    IN
    UNION {[1..n -> LexAlphabet] : n \in 0..MaxInputLen}
        \cup {<<"0", b>> \o d : b \in {"b", "o", "x"}, d \in digits}
        \cup {<<"r">> \o s : s \in rest}
        \cup {<<"#">> \o t : t \in tail}
        \cup {<<"#", "!">> \o t : t \in tail}
        \cup {<<"1", ".", "f", "o", "o">>, <<"0", ".", ".", "2">>, <<"0", ".", "2">>,
              <<"1", "2", ".">>}
        \cup UNION {{<<"\"">> \o t : t \in [1..n -> {"\"", "\\", "a"}]} : n \in 0..MaxInputLen}

\* TokenIterator iter = tokenize(input)
LexerInit ==
    /\ TrackerFresh
    /\ PipelineIdle
    /\ ParserFresh
    /\ LibraryFresh
    /\ input_ \in LexInputs
    /\ pos_ = 0
    /\ len_remaining_ = Len(input_)
    /\ lexed = <<>>
    /\ lexer_state = "ready"

nonLexerVars == <<trackerVars, tokenizerVars, pipelineVars, parserVars, libraryVars>>

\* a call of next() in which advance_token came to r: it returned a token
\* ("returns"), never returned ("hangs"), or ran into undefined behaviour and
\* the run ended there ("undefined")
TokenIterator_next_ends(r, how) ==
    /\ Len(lexed) < MaxNextCalls
    /\ \/ /\ how = "returns"
          /\ ~r.hangs
          /\ pos_' = r.pos
          /\ len_remaining_' = r.len_remaining
          /\ lexed' = Append(lexed, [token |-> r.token, start_pos |-> pos_])
          /\ UNCHANGED lexer_state
       \/ /\ how = "hangs"
          /\ r.hangs
          /\ lexer_state' = "hung"
          /\ UNCHANGED <<pos_, len_remaining_, lexed>>
       \/ /\ how = "undefined"
          /\ ~r.hangs
          /\ r.undefined
          /\ lexer_state' = "crashed"
          /\ UNCHANGED <<pos_, len_remaining_, lexed>>
       \/ /\ how = "indeterminate"
          /\ ~r.hangs
          /\ r.undefined
          /\ r.token.kind.literal.kind = "RawStr"
          /\ pos_' = r.pos
          /\ len_remaining_' = r.len_remaining
          /\ \E n \in 0..MaxRawLen :
                 lexed' = Append(lexed,
                     [token |-> [r.token EXCEPT !.kind.literal.n_hashes = n],
                      start_pos |-> pos_])
          /\ UNCHANGED lexer_state
    /\ UNCHANGED input_
    /\ UNCHANGED nonLexerVars

\* std::optional<Token> TokenIterator::next(): one advance_token
TokenIterator_next ==
    /\ lexer_state = "ready"
    /\ TokenIterator_next_ends(advance_token(input_, pos_, len_remaining_), "returns")

\* next() on an unterminated block comment: the loop of block_comment does not
\* end, and next never returns
TokenIterator_next_hangs ==
    /\ lexer_state = "ready"
    /\ TokenIterator_next_ends(advance_token(input_, pos_, len_remaining_), "hangs")

\* next() on a literal: eat_literal_suffix or raw_double_quoted_string flows
\* off its end, the behaviour is undefined, and the run may end there; the
\* Result of raw_double_quoted_string is indeterminate, and next() may return
\* a RawStr with whatever n_hashes it holds
TokenIterator_next_undefined ==
    /\ lexer_state = "ready"
    /\ \E how \in {"undefined", "indeterminate"} :
           TokenIterator_next_ends(advance_token(input_, pos_, len_remaining_), how)

\* the loop of strip_shebang over tokenize(input_tail): the first token that
\* is not whitespace and not a comment without doc_style. hangs: a call of
\* next() never returns; undefined: a call of next() ran into undefined
\* behaviour on the way.
first_significant(input_tail) ==
    LET is_ignorable(kind) ==
            \/ kind.kind = "Whitespace"
            \/ kind.kind \in {"LineComment", "BlockComment"} /\ kind.doc_style = "none"
        RECURSIVE loop(_, _, _)
        RECURSIVE step(_, _)
        loop(pos, rem, undefined) == step(advance_token(input_tail, pos, rem), undefined)
        step(r, undefined) ==
            IF r.hangs THEN [hangs |-> TRUE, undefined |-> undefined]
            ELSE IF is_ignorable(r.token.kind)
            THEN loop(r.pos, r.len_remaining, undefined \/ r.undefined)
            ELSE [hangs |-> FALSE, undefined |-> undefined \/ r.undefined,
                  kind |-> r.token.kind.kind]
    IN loop(0, Len(input_tail), FALSE)

\* std::nullopt of std::optional<size_t>
NoLength == 0 - 1

\* strip_shebang(input): the length returned, or NoLength
strip_shebang(input) ==
    LET input_tail == SubSeq(input, 3, Len(input))
        \* input_tail.find('\n'), or input_tail.length()
        line_length == eat_while(input_tail, 0, chars_of(input_tail) \ {"\n"})
        found(token) ==
            IF token.hangs THEN token
            ELSE [hangs |-> FALSE, undefined |-> token.undefined,
                  ret |-> IF token.kind # "OpenBracket" THEN 2 + line_length ELSE NoLength]
    IN IF Len(input) < 2 \/ input[1] # "#" \/ input[2] # "!"
       THEN [hangs |-> FALSE, undefined |-> FALSE, ret |-> NoLength]
       ELSE found(first_significant(input_tail))

\* a call of strip_shebang that came to r: it returned, never returned, or ran
\* into undefined behaviour and the run ended there
strip_shebang_ends(r) ==
    /\ \/ /\ ~r.hangs
          /\ last' = [op |-> "strip_shebang", how |-> "returns", ret |-> r.ret]
          /\ UNCHANGED lexer_state
       \/ /\ r.hangs
          /\ last' = [op |-> "strip_shebang", how |-> "hangs", ret |-> NoLength]
          /\ lexer_state' = "hung"
       \/ /\ ~r.hangs
          /\ r.undefined
          /\ last' = [op |-> "strip_shebang", how |-> "undefined", ret |-> NoLength]
          /\ lexer_state' = "crashed"
    /\ UNCHANGED <<input_, pos_, len_remaining_, lexed>>
    /\ UNCHANGED <<ownership_map, current_scope, errors, borrow_kinds>>
    /\ UNCHANGED <<tokenizerVars, pipelineVars, parserVars, libraryVars>>

\* strip_shebang(input) called on the input before it is tokenized
strip_shebang_call ==
    /\ lexer_state = "ready"
    /\ lexed = <<>>
    /\ last.op = "none"
    /\ strip_shebang_ends(strip_shebang(input_))

LexerNext ==
    \/ TokenIterator_next
    \/ TokenIterator_next_hangs
    \/ TokenIterator_next_undefined
    \/ strip_shebang_call

\* next() called again and again on one TokenIterator
LexerSpec == LexerInit /\ [][LexerNext]_vars

\* TokenIterator iter = tokenize(input), the input being one over LexAlphabet
LexerLiveInit ==
    /\ LexerInit
    /\ input_ \in UNION {[1..n -> LexAlphabet] : n \in 0..MaxInputLen}

\* next() being called on it for as long as it can be
LexerLiveSpec == LexerLiveInit /\ [][LexerNext]_vars /\ WF_vars(LexerNext)

(***************************************************************************)
(* Claims about the low-level lexer.                                       *)
(***************************************************************************)

\* the sum of the len fields of the tokens of a history
RECURSIVE SumOfLens(_)
SumOfLens(history) ==
    IF history = <<>> THEN 0 ELSE Head(history).token.len + SumOfLens(Tail(history))

\* the history holds the token Eof
EofReturned == \E i \in DOMAIN lexed : lexed[i].token.kind.kind = "Eof"

C13_TokenLengthsAsClaimed ==
    \A i \in DOMAIN lexed :
        LET token == lexed[i].token IN
        /\ token.kind.kind # "Eof" => token.len >= 1
        /\ token.kind.kind = "Eof" => token.len = 0 /\ i = Len(lexed)
        /\ token.kind.kind = "Eof" <=> is_eof(input_, lexed[i].start_pos)

(***************************************************************************)
(* One Parser, parse and parse_block called on it                          *)
(***************************************************************************)

\* the longest token vector, EOF_TOKEN apart, that is enumerated
MaxTokens == 3

\* Tokenizer::tokenize as a whole: the tokens returned, or what is thrown
tokenize(src) ==
    LET RECURSIVE loop(_, _, _)
        loop(cur, ln, toks) ==
            IF tk_isAtEnd(src, cur)
            THEN [tokens |-> Append(toks, Token("EOF_TOKEN", <<>>, ln)), thrown |-> ""]
            ELSE LET r == scan_token(src, cur, ln) IN
                 IF r.thrown # "" THEN [tokens |-> <<>>, thrown |-> r.thrown]
                 ELSE loop(r.current, r.line, toks \o r.added)
    IN loop(0, 1, <<>>)

\* BlockExprAST(exprs)
BlockExprAST(exprs) == [kind |-> "Block", expressions |-> exprs]

\* Parser::parse_block with the parser at cur and decl declared. exited: whether
\* exit_scope was reached.
parse_block_at(toks, cur, decl) ==
    LET RECURSIVE loop(_, _, _, _)
        RECURSIVE body(_, _, _)
        loop(c, d, exprs, dangling) ==
            IF ~isAtEnd(toks, c) /\ ~check_type(toks, c, "RightBrace")
            THEN body(parse_at(toks, c, d), exprs, dangling)
            ELSE IF ~check_type(toks, c, "RightBrace")
            THEN Threw("Expect '}' after block.", c, d)
                     @@ [dangling |-> dangling, exited |-> FALSE]
            ELSE Parsed(BlockExprAST(exprs), c + 1, d)
                     @@ [dangling |-> dangling, exited |-> TRUE]
        body(r, exprs, dangling) ==
            IF ~r.ok
            THEN [r EXCEPT !.dangling = @ \/ dangling] @@ [exited |-> FALSE]
            ELSE loop(IF check_type(toks, r.cur, "Semicolon") THEN r.cur + 1 ELSE r.cur,
                      r.decl, Append(exprs, r.node), dangling \/ r.dangling)
    IN loop(cur, decl, <<>>, FALSE)

\* the tokens the enumerated token vectors are made of
TokenAlphabet ==
    {[type |-> "Let", lexeme |-> <<"l", "e", "t">>],
     [type |-> "Mut", lexeme |-> <<"m", "u", "t">>],
     [type |-> "Identifier", lexeme |-> <<"x">>],
     [type |-> "Identifier", lexeme |-> <<"y">>],
     [type |-> "Equals", lexeme |-> <<"=">>],
     [type |-> "Integer", lexeme |-> <<"7">>],
     [type |-> "Plus", lexeme |-> <<"+">>],
     [type |-> "Star", lexeme |-> <<"*">>],
     [type |-> "LeftParen", lexeme |-> <<"(">>],
     [type |-> "RightParen", lexeme |-> <<")">>],
     [type |-> "Semicolon", lexeme |-> <<";">>],
     [type |-> "RightBrace", lexeme |-> <<"}">>]}

\* sources whose tokens the parser is given: those of the tests, lets followed
\* by uses, and every expression of three operands with or without a parenthesis
ParserSources ==
    LET ops == {"+", "-", "*", "/"} IN
    {Source_BasicParsing, Source_Undeclared, Source_LetMut, Source_Sum,
     Source_CompleteCompilation, Source_LetOnly, Source_Arithmetic,
     <<"l", "e", "t", " ", "x", " ", "=", " ", "4", "0", ";", " ",
       "l", "e", "t", " ", "y", " ", "=", " ", "2", ";", " ", "x", " ", "+", " ", "y">>,
     <<"l", "e", "t", " ", "x", " ", "m", "u", "t", " ", "=", " ", "4", "2", ";">>,
     <<"(", "l", "e", "t", " ", "x", " ", "=", " ", "1", ")", "\n", "+", " ", "x", "\n",
       "*", " ", "y", "\n", "z">>,
     <<"(", "l", "e", "t", " ", "x", " ", "=", " ", "1", ")", " ", "+", " ", "x">>,
     <<"l", "e", "t", " ", "x", " ", "=", " ", "1", ";", "\n", "x", ";", "\n", "y">>,
     <<"l", "e", "t", " ", "x", "\n", "m", "u", "t", "\n", "7">>,
     <<"(", "1", " ", "+", "\n", "2", "\n", ";">>}
        \cup {<<"1", o1, "2", o2, "3">> : o1 \in ops, o2 \in ops}
        \cup {<<"(", "1", o1, "2", ")", o2, "3">> : o1 \in ops, o2 \in ops}
        \cup {<<"1", o1, "(", "2", o2, "3", ")">> : o1 \in ops, o2 \in ops}

\* the token vectors the parser is constructed with: the tokens of
\* ParserSources, every vector of at most MaxTokens tokens of TokenAlphabet,
\* two vectors with a block that declares x, `let x = 7 } x` and
\* `let y = 7 let x = y } y x`, and three with a let that refers to its own
\* name, `let x = x` alone, after `let y = 7` and after `let x = 7`; one token
\* a line, closed by EOF_TOKEN
ParserInputs ==
    LET lexeme(text) ==
            CASE text = "let" -> <<"l", "e", "t">> [] text = "mut" -> <<"m", "u", "t">>
              [] OTHER -> <<text>>
        type(text) ==
            CASE text = "let" -> "Let" [] text = "=" -> "Equals" [] text = "7" -> "Integer"
              [] text = "}" -> "RightBrace" [] OTHER -> "Identifier"
        vector(n, v) ==
            [i \in 1..(n + 1) |-> IF i <= n THEN Token(v[i].type, v[i].lexeme, i)
                                  ELSE Token("EOF_TOKEN", <<>>, n + 1)]
        block(texts) ==
            vector(Len(texts), [i \in DOMAIN texts |->
                                   [type |-> type(texts[i]), lexeme |-> lexeme(texts[i])]])
    IN
    {tokenize(src).tokens : src \in {s \in ParserSources : tokenize(s).thrown = ""}}
        \cup UNION {{vector(n, v) : v \in [1..n -> TokenAlphabet]} : n \in 0..MaxTokens}
        \cup {block(<<"let", "x", "=", "7", "}", "x">>),
              block(<<"let", "y", "=", "7", "let", "x", "=", "y", "}", "y", "x">>),
              block(<<"let", "x", "=", "x">>),
              block(<<"let", "y", "=", "7", "let", "x", "=", "x">>),
              block(<<"let", "x", "=", "7", "let", "x", "=", "x">>)}

\* Parser parser(tokens)
ParserInit ==
    /\ TrackerFresh
    /\ LexerIdle
    /\ ParserFresh
    /\ LibraryFresh
    /\ source = <<>>
    /\ start = 0
    /\ current = 0
    /\ line = 1
    /\ tokens \in ParserInputs
    /\ phase = "parsing"
    /\ thrown = ""
    /\ ast = NoNode
    /\ check_ret = FALSE
    /\ borrow_set = BorrowSetFresh

\* what a call on the parser leaves alone
nonParserVars ==
    <<ownership_map, current_scope, errors, borrow_kinds, source, start, current, line,
      tokens, check_ret, borrow_set, lexerVars, libraryVars>>

\* a call of parse or parse_block that returned or threw r; an exception ends
\* the use of the parser, and leaves a scope that was entered open
ParserReturns(op, r) ==
    /\ parser_current' = r.cur
    /\ declared_variables' = r.decl
    /\ scope_depth' = IF r.exited THEN scope_depth ELSE scope_depth + 1
    /\ ast' = r.node
    /\ thrown' = r.msg
    /\ phase' = IF r.ok THEN "parsing" ELSE "failed"
    /\ last' = [op |-> op, at |-> parser_current, decl |-> declared_variables]
    /\ UNCHANGED nonParserVars

\* a call of parse or parse_block in which parse_primary read a destroyed Token
\* or the check a destroyed node: the behaviour is undefined, and the run may
\* end there
ParserCrashes(op, r) ==
    /\ r.dangling
    /\ phase' = "crashed"
    /\ last' = [op |-> op, at |-> parser_current, decl |-> declared_variables]
    /\ UNCHANGED <<parserVars, ast, thrown>>
    /\ UNCHANGED nonParserVars

\* parser.parse(), which enters no scope
Parser_parse ==
    /\ phase = "parsing"
    /\ ParserReturns("parse",
           parse_at(tokens, parser_current, declared_variables) @@ [exited |-> TRUE])

Parser_parse_undefined ==
    /\ phase = "parsing"
    /\ ParserCrashes("parse", parse_at(tokens, parser_current, declared_variables))

\* parser.parse_block()
Parser_parse_block ==
    /\ phase = "parsing"
    /\ ParserReturns("parse_block",
           parse_block_at(tokens, parser_current, declared_variables))

Parser_parse_block_undefined ==
    /\ phase = "parsing"
    /\ ParserCrashes("parse_block",
           parse_block_at(tokens, parser_current, declared_variables))

ParserNext ==
    \/ Parser_parse
    \/ Parser_parse_undefined
    \/ Parser_parse_block
    \/ Parser_parse_block_undefined

\* one Parser under any sequence of parse and parse_block calls
ParserSpec == ParserInit /\ [][ParserNext]_vars

(***************************************************************************)
(* Claims about the Parser                                                 *)
(***************************************************************************)

\* C14 (as claimed): parse_primary on an identifier that no let has declared
\* throws "Use of undeclared variable: X" and returns no tree, and on a
\* declared one returns a Var node with borrow mode Shared; parse hands the
\* failure on as "Line N: Use of undeclared variable: X", N the line of the
\* parser's current token, and returns no tree
C14_UndeclaredIdentifier ==
    LET undeclared(name) == "Use of undeclared variable: " \o name
        asClaimed(r, name, cur, decl) ==
            IF name \in decl
            THEN r = [ok |-> TRUE, cur |-> cur + 1, decl |-> decl, msg |-> "", read |-> TRUE,
                      node |-> [kind |-> "Var", name |-> name, borrow_type |-> "Shared"]]
            ELSE r = [ok |-> FALSE, cur |-> cur + 1, decl |-> decl, read |-> TRUE,
                      msg |-> undeclared(name), node |-> NoNode]
        handedOn(r) ==
            (~r.ok /\ \E name \in {"x", "y", "z"} : r.msg = undeclared(name)) =>
                /\ phase = "failed"
                /\ ast = NoNode
                /\ thrown = "Line " \o ToString(tokens[parser_current + 1].line)
                                \o ": " \o r.msg
    IN
    /\ \A cur \in 0..(Len(tokens) - 1), decl \in SUBSET {"x", "y", "z"} :
           check_type(tokens, cur, "Identifier") =>
               asClaimed(parse_primary(tokens, cur, decl),
                         Str(tokens[cur + 1].lexeme), cur, decl)
    /\ last.op = "parse" => handedOn(parse_expression(tokens, last.at, last.decl))

\* C15 (as claimed): every error the parser raises, from parse or from
\* parse_block, is "Line N: <reason>", one of the parser's reasons behind
\* exactly one prefix, N the line of the token at the parser's current index
C15_EveryErrorLinePrefixedAsClaimed ==
    LET reasons ==
            {"Expect expression.", "Expect ')' after expression.",
             "Expect identifier after 'let'.", "Expect '=' after variable name.",
             "Expect '}' after block."}
                \cup {"Use of undeclared variable: " \o name : name \in {"x", "y", "z"}}
    IN
    phase = "failed" =>
        \E reason \in reasons :
            thrown = "Line " \o ToString(tokens[parser_current + 1].line)
                         \o ": " \o reason

\* C16 (as claimed): parse runs the check once, on the whole tree that
\* parse_expression returned; with violations recorded it fails with "Line N: "
\* and the first of them, and with none recorded it returns that tree
C16_ParseChecksOnceAsClaimed ==
    LET asClaimed(r, errs) ==
            r.ok =>
                IF errs = <<>>
                THEN phase = "parsing" /\ ast = r.node /\ thrown = ""
                ELSE /\ phase = "failed"
                     /\ ast = NoNode
                     /\ thrown = "Line " \o ToString(tokens[parser_current + 1].line)
                                     \o ": " \o errs[1].message
        checked(r) == asClaimed(r, check_errors(BorrowSetFresh, r.node))
    IN
    last.op = "parse" => checked(parse_expression(tokens, last.at, last.decl))

\* the reference tree of the two-level precedence grammar for the tokens
\* lo .. hi - 1 (counted from 0) of a well-formed expression of integers,
\* identifiers, operators and parentheses: split at the last '+' or '-' outside
\* parentheses, failing that at the last '*' or '/', failing that take the
\* inside of the parentheses, or the operand itself
RECURSIVE RefTree(_, _, _)
RefTree(toks, lo, hi) ==
    LET opened(i) == Cardinality({j \in lo..(i - 1) : toks[j + 1].type = "LeftParen"})
        closed(i) == Cardinality({j \in lo..(i - 1) : toks[j + 1].type = "RightParen"})
        outside(types) ==
            {i \in lo..(hi - 1) : toks[i + 1].type \in types /\ opened(i) = closed(i)}
        rightmost(S) == CHOOSE i \in S : \A j \in S : j <= i
        split(i) ==
            [kind |-> "Binary", op |-> toks[i + 1].lexeme[1],
             lhs |-> RefTree(toks, lo, i), rhs |-> RefTree(toks, i + 1, hi)]
        operand == toks[lo + 1]
    IN
    IF outside({"Plus", "Minus"}) # {} THEN split(rightmost(outside({"Plus", "Minus"})))
    ELSE IF outside({"Star", "Slash"}) # {}
    THEN split(rightmost(outside({"Star", "Slash"})))
    ELSE IF operand.type = "LeftParen" THEN RefTree(toks, lo + 1, hi - 1)
    ELSE IF operand.type = "Integer" THEN [kind |-> "Int", value |-> stoi(operand.lexeme)]
    ELSE [kind |-> "Var", name |-> Str(operand.lexeme), borrow_type |-> "Shared"]

\* C17 (as claimed): the tree parse_expression built for an expression of
\* operands, operators and parentheses, as parse returns it, is the reference
\* tree of the two-level grammar
C17_PrecedenceTreeAsClaimed ==
    LET plain(lo, hi) ==
            \A i \in lo..(hi - 1) :
                tokens[i + 1].type \in {"Integer", "Identifier", "Plus", "Minus", "Star",
                                        "Slash", "LeftParen", "RightParen"}
        asClaimed(r) ==
            (r.ok /\ plain(last.at, r.cur)) =>
                /\ phase = "parsing"
                /\ ast = RefTree(tokens, last.at, r.cur)
    IN
    last.op = "parse" => asClaimed(parse_expression(tokens, last.at, last.decl))

\* C18 (as claimed): parse on the tokens of `let x = 40; let y = 2; x + y`,
\* written on one line or as in the test, consumes every token up to
\* EOF_TOKEN and returns Binary{+, Var x, Var y}, whose check passes
C18_LetSequenceAsClaimed ==
    LET sequences ==
            {Source_CompleteCompilation,
             <<"l", "e", "t", " ", "x", " ", "=", " ", "4", "0", ";", " ",
               "l", "e", "t", " ", "y", " ", "=", " ", "2", ";", " ", "x", " ", "+", " ", "y">>}
        sum == [kind |-> "Binary", op |-> "+",
                lhs |-> [kind |-> "Var", name |-> "x", borrow_type |-> "Shared"],
                rhs |-> [kind |-> "Var", name |-> "y", borrow_type |-> "Shared"]]
    IN
    (/\ \E src \in sequences : tokens = tokenize(src).tokens
     /\ last.op = "parse"
     /\ last.at = 0) =>
        /\ phase = "parsing"
        /\ isAtEnd(tokens, parser_current)
        /\ ast = sum
        /\ check_errors(BorrowSetFresh, ast) = <<>>

\* C19 (as claimed): parse on the tokens of `let mut x = 42;` returns a Let
\* node for x whose is_mutable is true, and on those of `let x = 42;` the node
\* Let{x, is_mutable false, Int(42)}; the check of either passes
C19_LetMutAsClaimed ==
    LET let(is_mut) == [kind |-> "Let", name |-> "x", is_mutable |-> is_mut,
                        init |-> [kind |-> "Int", value |-> 42]]
        returns(src, node) ==
            (tokens = tokenize(src).tokens /\ last.op = "parse" /\ last.at = 0) =>
                /\ phase = "parsing"
                /\ ast = node
                /\ check_errors(BorrowSetFresh, ast) = <<>>
    IN
    /\ returns(Source_LetMut, let(TRUE))
    /\ returns(Source_BasicParsing, let(FALSE))

C21_EofWhereInputNeeded ==
    LET count(type) ==
            Cardinality({i \in last.at..(parser_current - 1) : tokens[i + 1].type = type})
        needsInput ==
            \/ /\ last.op = "parse_block"
               /\ parser_current = last.at \/ tokens[parser_current].type # "RightBrace"
            \/ /\ last.op = "parse"
               /\ \/ parser_current = last.at
                  \/ tokens[parser_current].type \in {"Plus", "Minus", "Star", "Slash"}
                  \/ count("LeftParen") > count("RightParen")
    IN
    (phase # "crashed" /\ isAtEnd(tokens, parser_current) /\ needsInput) =>
        /\ phase = "failed"
        /\ thrown # ""
        /\ ast = NoNode

\* parse came to EOF_TOKEN right after the '+' of `7 +` and raised an error
C21_Witness ==
    /\ last = [op |-> "parse", at |-> 0, decl |-> {}]
    /\ tokens[1].type = "Integer"
    /\ tokens[2].type = "Plus"
    /\ tokens[3].type = "EOF_TOKEN"
    /\ parser_current = 2
    /\ phase = "failed"
    /\ thrown = "Line 3: Expect expression."
    /\ ast = NoNode

(***************************************************************************)
(* Claims about the Tokenizer                                              *)
(***************************************************************************)

\* the characters Tokenizer::tokenize has a case for
Tokenizable ==
    {" ", "\r", "\t", "\n", "_", "(", ")", "+", "-", "*", "/", "=", ";"}
        \cup Digits \cup Letters

\* 1 plus the number of newlines among the first n characters of source
LineOf(n) == 1 + Cardinality({i \in 1..n : source[i] = "\n"})

\* tokenize has thrown: no EOF_TOKEN was added and nothing was returned
TokenizerFailed ==
    /\ phase = "failed"
    /\ tokens = <<>> \/ tokens[Len(tokens)].type # "EOF_TOKEN"

\* the character at position i (from 0) of source is inside a // comment
InComment(i) ==
    \E j \in 0..(i - 2) :
        /\ source[j + 1] = "/"
        /\ source[j + 2] = "/"
        /\ \A k \in j..i : source[k + 1] # "\n"

DotBetweenDigits(i) ==
    /\ source[i + 1] = "."
    /\ i >= 1
    /\ i + 2 <= Len(source)
    /\ isdigit(source[i])
    /\ isdigit(source[i + 2])

C23_TokensAsClaimed ==
    [][LET typeOf(text) ==
            IF text[1] \in Digits
            THEN (IF \E i \in DOMAIN text : text[i] = "." THEN "Float" ELSE "Integer")
            ELSE IF text[1] \in Letters \cup {"_"}
            THEN (CASE Str(text) = "let" -> "Let" [] Str(text) = "mut" -> "Mut"
                    [] Str(text) = "func" -> "Func" [] Str(text) = "return" -> "Return"
                    [] Str(text) = "if" -> "If" [] Str(text) = "else" -> "Else"
                    [] OTHER -> "Identifier")
            ELSE (CASE text = <<"(">> -> "LeftParen" [] text = <<")">> -> "RightParen"
                    [] text = <<"{">> -> "LeftBrace" [] text = <<"}">> -> "RightBrace"
                    [] text = <<"+">> -> "Plus" [] text = <<"-">> -> "Minus"
                    [] text = <<"*">> -> "Star" [] text = <<"/">> -> "Slash"
                    [] text = <<"=">> -> "Equals" [] text = <<";">> -> "Semicolon"
                    [] OTHER -> "none")
        added == tokens'[Len(tokens')]
        scanned == SubSeq(source, start' + 1, current')
        blank == \/ \A i \in DOMAIN scanned : scanned[i] \in {" ", "\r", "\t", "\n"}
                 \/ Len(scanned) >= 2 /\ scanned[1] = "/" /\ scanned[2] = "/"
    IN
       /\ (phase = "tokenizing" /\ phase' = "failed") =>
              source[start' + 1] \notin {"{", "}"}
       /\ (phase = "tokenizing" /\ phase' = "tokenizing") =>
              IF blank THEN tokens' = tokens
              ELSE /\ Len(tokens') = Len(tokens) + 1
                   /\ SubSeq(tokens', 1, Len(tokens)) = tokens
                   /\ added.lexeme = scanned
                   /\ added.line = LineOf(start')
                   /\ added.type = typeOf(scanned)
                   /\ added.type \notin {"none", "EOF_TOKEN"}
       /\ (phase = "tokenizing" /\ phase' = "tokenized") =>
              /\ current = Len(source)
              /\ tokens' = Append(tokens, Token("EOF_TOKEN", <<>>, LineOf(Len(source))))
              /\ \A i \in DOMAIN tokens : tokens[i].type # "EOF_TOKEN"]_vars

(***************************************************************************)
(* Claims about the literals of the low-level lexer.                       *)
(***************************************************************************)

\* C24: number() on a literal made of "0b", "0o" or "0x" and then only digits
\* of the literal and underscores returns Int with the base of the prefix
\* (Binary, Octal, Hexadecimal), having consumed the whole literal; empty_int
\* is true when no digit follows the prefix and false when at least one does.
\* The token next() returns for such an input carries that LiteralKind.
C24_BasePrefixedInt ==
    LET base == CASE input_[2] = "b" -> "Binary" [] input_[2] = "o" -> "Octal"
                  [] OTHER -> "Hexadecimal"
        digit == IF input_[2] = "x" THEN Digits \cup {"a", "b", "c", "d", "e", "f",
                                                      "A", "B", "C", "D", "E", "F"}
                 ELSE Digits
        claimed == [pos  |-> Len(input_),
                    kind |-> [kind |-> "Int", base |-> base,
                              empty_int |-> ~\E i \in 3..Len(input_) : input_[i] \in digit]]
    IN (/\ Len(input_) >= 2
        /\ input_[1] = "0"
        /\ input_[2] \in {"b", "o", "x"}
        /\ \A i \in 3..Len(input_) : input_[i] \in digit \cup {"_"})
       => /\ lex_number(input_, 1, "0") = claimed
          /\ lexed # <<>> => lexed[1].token.kind = [kind |-> "Literal", literal |-> claimed.kind,
                                                    suffix_start |-> Len(input_)]

\* C24 witness: next() has returned the token of "0x_", an Int in base
\* Hexadecimal with empty_int = true
C24_Witness ==
    /\ input_ = <<"0", "x", "_">>
    /\ Len(lexed) = 1
    /\ lexed[1].token.kind.literal =
           [kind |-> "Int", base |-> "Hexadecimal", empty_int |-> TRUE]
    /\ lexed[1].token.len = 3

\* the raw string input_ starts with, if it is r, n '#', '"', a body, '"',
\* n '#' and then only '#': n and the length of that text; n = -1 otherwise.
\* The closing quote is the first one followed by n '#', so the body holds no
\* '"' followed by n '#'.
RawStringOf ==
    LET n == eat_while(input_, 1, {"#"}) - 1
        closes(q) == /\ input_[q] = "\""
                     /\ q + n <= Len(input_)
                     /\ \A i \in (q + 1)..(q + n) : input_[i] = "#"
        closing == {q \in (n + 3)..Len(input_) : closes(q)}
        close == CHOOSE q \in closing : \A k \in closing : q <= k
    IN IF /\ input_ # <<>>
          /\ input_[1] = "r"
          /\ Len(input_) >= n + 3
          /\ input_[n + 2] = "\""
          /\ closing # {}
          /\ \A i \in (close + n + 1)..Len(input_) : input_[i] = "#"
       THEN [n |-> n, len |-> close + n]
       ELSE [n |-> 0 - 1, len |-> 0]

\* C25 (as claimed): for every n and every body that contains no '"' followed
\* by n '#', the first call of next() on r, n '#', '"', body, '"', n '#' yields
\* one Literal token of kind RawStr with n_hashes = n whose length covers
\* exactly that text; '#' characters after it are not part of the token.
C25_RawStringAsClaimed ==
    (RawStringOf.n >= 0 /\ (lexed # <<>> \/ lexer_state # "ready"))
        => /\ lexed # <<>>
           /\ lexed[1].token =
                  LexToken([kind |-> "Literal",
                            literal |-> [kind |-> "RawStr", n_hashes |-> RawStringOf.n],
                            suffix_start |-> RawStringOf.len],
                           RawStringOf.len)

\* C26 (as claimed): a call of strip_shebang that returns returns no length
\* when the input does not start with "#!" or when the first token after "#!"
\* that is neither whitespace nor a non-doc comment is OpenBracket; in every
\* other case it returns the length of the first line, counting the "#!" and
\* the newline that ends the line.
C26_StripShebangAsClaimed ==
    LET tail == SubSeq(input_, 3, Len(input_))
        newlines == {i \in DOMAIN input_ : input_[i] = "\n"}
        first_line == IF newlines = {} THEN Len(input_)
                      ELSE CHOOSE i \in newlines : \A k \in newlines : i <= k
        claimed(token) ==
            IF ~token.hangs /\ token.kind = "OpenBracket" THEN NoLength ELSE first_line
    IN (last.op = "strip_shebang" /\ last.how = "returns") =>
           last.ret = IF Len(input_) < 2 \/ SubSeq(input_, 1, 2) # <<"#", "!">>
                      THEN NoLength
                      ELSE claimed(first_significant(tail))

(***************************************************************************)
(* Claims about the scopes of the Parser                                   *)
(***************************************************************************)

\* C27 (as claimed): the parser keeps declared names per lexical scope: once
\* parse_block has consumed the closing '}' and returned, the names declared by
\* let inside the block are no longer declared, and the names declared before
\* the block still are.
C27_BlockScopeAsClaimed ==
    (last.op = "parse_block" /\ phase = "parsing") => declared_variables = last.decl

(***************************************************************************)
(* BorrowChecker::check on a checker whose BorrowSet holds records         *)
(***************************************************************************)

\* the most records a BorrowSet is explored with
MaxBorrows == 2

\* the trees check is called with here: literals and variables, and a Binary,
\* a Let and a Block over them
NestedTrees ==
    LET names  == {VariableExprAST("x", "Shared"), VariableExprAST("y", "Shared")}
        leaves == names \cup {IntExprAST(1)}
        pairs  == {BinaryExprAST(l, r, "+") : l \in leaves, r \in leaves}
    IN leaves \cup pairs
        \cup {BinaryExprAST(BinaryExprAST(l, r, "+"), v, "+") : l \in names, r \in names, v \in names}
        \cup {LetExprAST("z", FALSE, l) : l \in leaves}
        \cup {BlockExprAST(<<l>>) : l \in leaves}
        \cup {BlockExprAST(<<l, r>>) : l \in names, r \in names}

\* a checker of BorrowChecker.hpp whose BorrowSet was filled by add_borrow and
\* add_local_borrow: record i was reserved at line i and is indexed under the
\* place it borrows; location_map is given in the order get_borrow walks it
BorrowSetInit ==
    /\ ownership_map = <<>>
    /\ current_scope = 0
    /\ errors = <<>>
    /\ borrow_kinds = <<>>
    /\ last = [op |-> "constructed", revision |-> "BorrowChecker.hpp"]
    /\ source = <<>>
    /\ start = 0
    /\ current = 0
    /\ line = 1
    /\ tokens = <<>>
    /\ phase = "idle"
    /\ thrown = ""
    /\ ast = NoNode
    /\ check_ret = FALSE
    /\ LexerIdle
    /\ ParserFresh
    /\ LibraryFresh
    /\ \E n \in 0..MaxBorrows :
         \E kinds \in [1..n -> {<<"Mutable", "NotTwoPhase">>, <<"Mutable", "NotActivated">>,
                                <<"Mutable", "ActivatedAt">>, <<"Shared", "ActivatedAt">>}],
            places \in [1..n -> {"x", "y"}] :
             borrow_set =
                 [location_map |->
                      [i \in 1..n |->
                          [reserve_location |-> [line |-> i, column |-> 1],
                           activation_location |-> kinds[i][2],
                           kind |-> kinds[i][1],
                           region |-> "",
                           borrowed_place |-> places[i],
                           assigned_place |-> ""]],
                  local_map |->
                      [name \in {places[i] : i \in 1..n} |->
                          {i - 1 : i \in {k \in 1..n : places[k] = name}}]]

\* bool BorrowChecker::check(ast) on any of the trees
check_nested == \E tree \in NestedTrees : check(tree)

\* one checker with records in its BorrowSet, check called on one tree after
\* another
BorrowSetSpec == BorrowSetInit /\ [][check_nested]_vars

(***************************************************************************)
(* Claims about BorrowChecker::check                                       *)
(***************************************************************************)

\* the indexes of the live mutable borrows on record under name: Mutable and
\* ActivatedAt
ActivatedUnder(name) ==
    IF name \notin DOMAIN borrow_set.local_map THEN {}
    ELSE {i \in borrow_set.local_map[name] :
             /\ borrow_set.location_map[i + 1].kind = "Mutable"
             /\ borrow_set.location_map[i + 1].activation_location = "ActivatedAt"}

C32_FloatPromotion ==
    LET digits == eat_while(input_, 0, Digits)        \* the leading decimal digits
        after  == IF digits + 1 < Len(input_) THEN input_[digits + 2] ELSE NUL
        greedy == after # "." /\ after # "_" /\ after \notin Letters
        asClaimed(r) ==
            IF greedy THEN r.kind.kind = "Float" /\ r.pos > digits
            ELSE r = [pos |-> digits,
                      kind |-> [kind |-> "Int", base |-> "Decimal", empty_int |-> FALSE]]
    IN (/\ input_ # <<>>
        /\ digits >= 1
        /\ digits < Len(input_)
        /\ input_[digits + 1] = ".")
       => /\ asClaimed(lex_number(input_, 1, input_[1]))
          /\ lexed # <<>> =>
                 /\ lexed[1].token.kind.kind = "Literal"
                 /\ lexed[1].token.kind.literal.kind = IF greedy THEN "Float" ELSE "Int"
                 /\ greedy => lexed[1].token.len > digits
                 /\ ~greedy => lexed[1].token.len = digits
          /\ (~greedy /\ Len(lexed) >= 2) =>
                 /\ lexed[2].start_pos = digits
                 /\ lexed[2].token.kind.kind = "Dot"

\* C32 witness: `1.foo` has been lexed as the Int `1`, then Dot, then an Ident
C32_Witness ==
    /\ input_ = <<"1", ".", "f", "o", "o">>
    /\ Len(lexed) = 3
    /\ lexed[1].token.kind.literal = [kind |-> "Int", base |-> "Decimal", empty_int |-> FALSE]
    /\ lexed[1].token.len = 1
    /\ lexed[2].token.kind.kind = "Dot"
    /\ lexed[3].token.kind.kind = "Ident"

\* C33 (as claimed): double_quoted_string consumes up to and including the
\* first '"' that is not part of a backslash escape (a backslash followed by a
\* backslash or by '"' is one unit of two characters) and returns true; when
\* the input ends before such a quote it stops at the end of the input and
\* returns false. So a call of next() on an input that begins with '"', if the
\* run does not end inside eat_literal_suffix, returns a Str literal with that
\* terminated flag whose suffix starts where the string stopped.
C33_DoubleQuotedStringAsClaimed ==
    LET RECURSIVE scan(_)
        scan(p) ==
            IF p >= Len(input_) THEN [terminated |-> FALSE, pos |-> Len(input_)]
            ELSE IF input_[p + 1] = "\"" THEN [terminated |-> TRUE, pos |-> p + 1]
            ELSE IF /\ input_[p + 1] = "\\"
                    /\ p + 1 < Len(input_)
                    /\ input_[p + 2] \in {"\\", "\""}
            THEN scan(p + 2)
            ELSE scan(p + 1)
    IN (/\ input_ # <<>>
        /\ input_[1] = "\""
        /\ lexer_state # "crashed"
        /\ lexed # <<>> \/ lexer_state = "hung")
       => /\ lexed # <<>>
          /\ lexed[1].token.kind = [kind |-> "Literal",
                                    literal |-> [kind |-> "Str",
                                                 terminated |-> scan(1).terminated],
                                    suffix_start |-> scan(1).pos]

\* C34 (as claimed): raw-string lexing reports each failure as an error value.
\* Once next() has been called on r, a run of n '#' and more, the Result of
\* raw_string_unvalidated is InvalidStarter{bad_char} when the character after
\* the run of '#' is not '"', bad_char being that character; NoTerminator with
\* expected = n when the input ends before a '"' followed by n '#'; and Ok(n)
\* when there is such a terminator.
C34_RawStringErrorsAsClaimed ==
    LET n == eat_while(input_, 1, {"#"}) - 1
        starter == first(input_, n + 1)
        terminated ==
            \E q \in (n + 3)..Len(input_) :
                /\ input_[q] = "\""
                /\ q + n <= Len(input_)
                /\ \A i \in (q + 1)..(q + n) : input_[i] = "#"
        asClaimed(r) ==
            IF starter # "\""
            THEN ~r.ok /\ r.err = [kind |-> "InvalidStarter", bad_char |-> starter]
            ELSE IF terminated THEN r.ok /\ r.n_hashes = n
            ELSE ~r.ok /\ r.err.kind = "NoTerminator" /\ r.err.expected = n
    IN (/\ Len(input_) >= 2
        /\ input_[1] = "r"
        /\ input_[2] \in {"#", "\""}
        /\ ~(input_[2] = "#" /\ is_id_start(first(input_, 2)))
        /\ lexed # <<>> \/ lexer_state = "crashed")
       => asClaimed(raw_string_unvalidated(input_, 1))

\* C35 (as claimed): when a raw string is unterminated and its body contains a
\* '"' followed by at least one '#', but fewer than the opening count, the
\* NoTerminator error carries a possible_terminator_offset, and found is the
\* largest number of '#' seen after such a '"'; the offset is absent when the
\* body contains no '"'.
C35_PossibleTerminatorAsClaimed ==
    LET n == eat_while(input_, 1, {"#"}) - 1
        quotes == {q \in (n + 3)..Len(input_) : input_[q] = "\""}
        seen(q) == eat_while(input_, q, {"#"}) - q          \* the '#' after the quote at q
        most == CHOOSE k \in {seen(q) : q \in quotes} : \A q \in quotes : seen(q) <= k
        asClaimed(r) ==
            (~r.ok /\ r.err.kind = "NoTerminator") =>
                IF quotes = {} THEN r.err.possible_terminator_offset = "none"
                ELSE most >= 1 => /\ r.err.possible_terminator_offset # "none"
                                  /\ r.err.found = most
    IN (/\ input_ # <<>>
        /\ input_[1] = "r"
        /\ Len(input_) >= n + 2
        /\ input_[n + 2] = "\""
        /\ lexed # <<>> \/ lexer_state = "crashed")
       => asClaimed(raw_string_unvalidated(input_, 1))

(***************************************************************************)
(* Vec (arena.hpp).  ptr is the allocated storage, a sequence of cap       *)
(* slots; slot i of the code is ptr[i + 1], and a slot holding no          *)
(* constructed element is "uninit".                                        *)
(***************************************************************************)

\* the largest length and capacity asked of the vector
MaxVecLen == 3

\* void reserve(size_t new_cap), with move_elements(new_ptr, actual_new_cap)
reserve(v, new_cap) ==
    LET RECURSIVE doubled(_)
        doubled(actual_new_cap) ==
            IF actual_new_cap < new_cap THEN doubled(actual_new_cap * 2)
            ELSE actual_new_cap
        grown == doubled(IF v.cap # 0 THEN v.cap ELSE 1)
    IN IF new_cap <= v.cap THEN v
       ELSE [ptr |-> [i \in 1..grown |-> IF i <= v.len THEN v.ptr[i] ELSE "uninit"],
             cap |-> grown,
             len |-> v.len]

\* void push(U&& value)
push(v, value) ==
    LET r == IF v.len >= v.cap THEN reserve(v, IF v.cap # 0 THEN v.cap * 2 ELSE 1) ELSE v
    IN [r EXCEPT !.ptr[r.len + 1] = value, !.len = r.len + 1]

\* std::optional<T> pop(): the vector it leaves
pop(v) ==
    IF v.len = 0 THEN v
    ELSE [v EXCEPT !.ptr[v.len] = "uninit", !.len = v.len - 1]

\* void truncate(size_t new_len)
truncate(v, new_len) ==
    IF new_len >= v.len THEN v
    ELSE [v EXCEPT !.ptr = [i \in 1..v.cap |-> IF i <= new_len THEN v.ptr[i] ELSE "uninit"],
                   !.len = new_len]

\* void clear()
clear(v) == [v EXCEPT !.ptr = [i \in 1..v.cap |-> "uninit"], !.len = 0]

\* void resize(size_t new_len)
resize(v, new_len) ==
    IF new_len > v.cap THEN reserve(v, new_len)
    ELSE IF new_len < v.len THEN truncate(v, new_len)
    ELSE v

RECURSIVE push_all(_, _)
\* for (...) new_vec.push(std::move(ptr[i]))
push_all(new_vec, values) ==
    IF values = <<>> THEN new_vec ELSE push_all(push(new_vec, Head(values)), Tail(values))

\* Vec<T> split_off(size_t at), for at <= len: the vector returned
split_off(v, at) ==
    push_all(reserve([ptr |-> <<>>, cap |-> 0, len |-> 0], v.len - at),
             SubSeq(v.ptr, at + 1, v.len))

\* one call on the vector; last keeps the call, the vector it was made on and
\* what it returned
VecNext ==
    LET returns(op, arg, ret) ==
            /\ last' = [op |-> op, arg |-> arg, before |-> vec, ret |-> ret]
            /\ UNCHANGED <<ownership_map, current_scope, errors, borrow_kinds>>
            /\ UNCHANGED <<tokenizerVars, pipelineVars, lexerVars, parserVars, encoder, decoder>>
    IN
    \/ \E new_cap \in 0..MaxVecLen :
          /\ vec' = reserve(vec, new_cap)
          /\ returns("reserve", new_cap, "void")
    \/ \E value \in {"a", "b"} :
          /\ vec.len < MaxVecLen
          /\ vec' = push(vec, value)
          /\ returns("push", value, "void")
    \/ /\ vec.len = 0
       /\ vec' = pop(vec)
       /\ returns("pop", "none", "nullopt")
    \/ /\ vec.len > 0
       /\ vec' = pop(vec)
       /\ returns("pop", "none", vec.ptr[vec.len])
    \/ /\ vec' = clear(vec)
       /\ returns("clear", "none", "void")
    \/ \E new_len \in 0..MaxVecLen :
          /\ vec' = resize(vec, new_len)
          /\ returns("resize", new_len, "void")
    \/ \E new_len \in 0..MaxVecLen :
          /\ vec' = truncate(vec, new_len)
          /\ returns("truncate", new_len, "void")
    \/ \E at \in 0..MaxVecLen :
          /\ at <= vec.len
          /\ vec' = [vec EXCEPT !.len = at]
          /\ returns("split_off", at, split_off(vec, at))
    \/ \E at \in 0..MaxVecLen :
          /\ at > vec.len
          /\ vec' = vec
          /\ returns("split_off", at, "split_off index out of range")

\* Vec<T> v; then any calls
VecSpec == Init /\ [][VecNext]_vars

\* C36 (as claimed): after resize(n) the length is n, the elements below n
\* that the vector had are unchanged and every index below n is accessible;
\* after any call the length is at most the capacity, and the capacity is what
\* it was or that (1 for an empty allocation) doubled some number of times.
C36_ResizeAsClaimed ==
    last.op \in {"reserve", "push", "pop", "clear", "resize", "truncate", "split_off"} =>
        /\ vec.len <= vec.cap
        /\ \/ vec.cap = last.before.cap
           \/ \E k \in 0..(MaxVecLen + 1) :
                 vec.cap = (IF last.before.cap # 0 THEN last.before.cap ELSE 1) * 2 ^ k
        /\ last.op = "resize" =>
              /\ vec.len = last.arg
              /\ \A i \in 1..last.arg : i <= last.before.len => vec.ptr[i] = last.before.ptr[i]
              /\ \A index \in 0..(last.arg - 1) : index < vec.len

(***************************************************************************)
(* Encoder and BufferDecoder (part_003).  A byte is a number in 0..255 and *)
(* data_[i] of the code is data_[i + 1] here.  A value of an unsigned type *)
(* of four or more bytes whose top bit is set is beyond the integers this   *)
(* model holds: it is kept as the value minus 2^(8 * sizeof(T)), on which  *)
(* `& 0xFF` is % 256 and `>> 8` is \div 256, and as which the cast to the  *)
(* signed type of the same size leaves it.                                 *)
(***************************************************************************)

\* the largest number of values emitted before the bytes are decoded
MaxEmits == 2

\* static constexpr uint8_t STR_SENTINEL = 0xC1
STR_SENTINEL == 193

\* sizeof the type an emit_* sends to encode_uint, a read_* reads
sizeof(type) ==
    CASE type \in {"u8", "i8", "bool"} -> 1
      [] type \in {"u16", "i16"} -> 2
      [] type \in {"u32", "i32"} -> 4
      [] type \in {"u64", "i64", "usize", "isize"} -> 8
      [] type \in {"u128", "i128"} -> 16

RECURSIVE encode_uint(_, _)
\* template<typename T> void encode_uint(T value), n being sizeof(T): the
\* bytes it hands to encode_bytes
encode_uint(value, n) ==
    IF n = 0 THEN <<>>
    ELSE <<value % 256>> \o encode_uint(value \div 256, n - 1)

\* a mutation of emit: emit_str leaves out the sentinel
emit_StrWithoutSentinel(type, value) ==
    IF type = "str" THEN encode_uint(Len(value), 8) \o value
    ELSE encode_uint(IF type = "bool" THEN (IF value THEN 1 ELSE 0)
                     ELSE IF sizeof(type) <= 2 THEN value % 256 ^ sizeof(type)
                     ELSE value,
                     sizeof(type))

\* the bytes emit_<type>(value) hands to encode_bytes; a string is a sequence
\* of bytes
emit(type, value) ==
    LET \* static_cast<UnsignedT>(value)
        as_unsigned(n) == IF n <= 2 THEN value % 256 ^ n ELSE value
    IN CASE type = "str" ->
              encode_uint(Len(value), 8) \o value \o encode_uint(STR_SENTINEL, 1)
         [] type = "bool" -> encode_uint(IF value THEN 1 ELSE 0, 1)
         [] type \in {"i8", "i16", "i32", "i64", "i128", "isize"} ->
              encode_uint(as_unsigned(sizeof(type)), sizeof(type))
         [] OTHER -> encode_uint(value, sizeof(type))

\* template<typename T> T read_little_endian(), n being sizeof(T), once
\* check_available(n) has passed: the value of the n bytes after pos
read_little_endian(data, pos, n) ==
    LET RECURSIVE weigh(_, _)
        \* value |= static_cast<T>(data_[pos_++]) << (8 * i), for i and above;
        \* with flip, of the complements of the bytes
        weigh(i, flip) ==
            IF i = n THEN 0
            ELSE (IF flip THEN 255 - data[pos + i + 1] ELSE data[pos + i + 1])
                     + 256 * weigh(i + 1, flip)
    IN IF n > 2 /\ data[pos + n] >= 128 THEN 0 - 1 - weigh(0, TRUE)
       ELSE weigh(0, FALSE)

\* read_<type>() of a BufferDecoder over data at pos: the value returned or
\* the exception thrown, and pos_ afterwards
read(type, data, size, pos) ==
    LET returns(ret, to) == [ret |-> ret, pos |-> to, thrown |-> ""]
        throws(what, to) == [ret |-> "none", pos |-> to, thrown |-> what]
        \* check_available(required)
        available(at, required) == at + required <= size
        n == IF type = "str" THEN 8 ELSE sizeof(type)
        \* static_cast<intN_t>(u)
        as_signed(u) == IF n <= 2 /\ u >= 256 ^ n \div 2 THEN u - 256 ^ n ELSE u
        \* (static_cast<__uint128_t>(high) << 64) | low
        joined(low, high) ==
            CASE low >= 0 /\ high = 0 -> low
              [] low < 0 /\ high = 0 - 1 -> low
        len == read_little_endian(data, pos, 8)
    IN CASE ~available(pos, IF n = 16 THEN 8 ELSE n) ->
              throws("Insufficient data in buffer", pos)
         [] OTHER ->
              CASE type \in {"u8", "u16", "u32", "u64", "usize"} ->
                      returns(read_little_endian(data, pos, n), pos + n)
                [] type \in {"i8", "i16", "i32", "i64", "isize"} ->
                      returns(as_signed(read_little_endian(data, pos, n)), pos + n)
                [] type = "bool" -> returns(read_little_endian(data, pos, 1) # 0, pos + 1)
                [] type \in {"u128", "i128"} ->
                      IF ~available(pos + 8, 8)
                      THEN throws("Insufficient data in buffer", pos + 8)
                      ELSE returns(joined(read_little_endian(data, pos, 8),
                                          read_little_endian(data, pos + 8, 8)), pos + 16)
                [] type = "str" ->
                      IF ~available(pos + 8, len + 1)
                      THEN throws("Insufficient data in buffer", pos + 8)
                      ELSE IF data[pos + 8 + len + 1] # STR_SENTINEL
                      THEN throws("Missing string sentinel", pos + 8 + len + 1)
                      ELSE returns(SubSeq(data, pos + 9, pos + 8 + len), pos + 8 + len + 1)

\* the values emitted, by type
CodecValues ==
    [u8 |-> {0, 255}, u16 |-> {258, 65535}, u32 |-> {16909060}, u64 |-> {16909060},
     usize |-> {3}, u128 |-> {258},
     i8 |-> {0 - 128, 127}, i16 |-> {0 - 2, 258}, i32 |-> {0 - 16909060},
     i64 |-> {0 - 1, 5}, isize |-> {0 - 3}, i128 |-> {0 - 258, 7},
     bool |-> {TRUE, FALSE}, str |-> {<<>>, <<97>>, <<97, 98>>}]

\* emit_<type>(value) on the encoder; then a BufferDecoder over the bytes
\* emitted, over all but the last of them, or over them with the sentinel of
\* a final string overwritten; then read_<type>() for the types emitted, in
\* their order, until one throws
CodecNext ==
    LET rest == <<ownership_map, current_scope, errors, borrow_kinds, tokenizerVars,
                  pipelineVars, lexerVars, parserVars, vec>>
        emitted(type, value, bytes) ==
            /\ encoder' = [encoder EXCEPT
                             !.bytes = @ \o bytes,
                             !.emitted = Append(@, [type |-> type, value |-> value,
                                                    from |-> Len(encoder.bytes),
                                                    size |-> Len(bytes)])]
            /\ last' = [op |-> "emit", type |-> type, thrown |-> ""]
            /\ UNCHANGED <<decoder, rest>>
        over(data) ==
            /\ decoder' = [data_ |-> data, size_ |-> Len(data), pos_ |-> 0, read |-> <<>>]
            /\ last' = [op |-> "BufferDecoder", type |-> "none", thrown |-> ""]
            /\ UNCHANGED <<encoder, rest>>
        reads(type, r) ==
            /\ decoder' = [decoder EXCEPT
                             !.pos_ = r.pos,
                             !.read = Append(@, [type |-> type, ret |-> r.ret,
                                                 thrown |-> r.thrown,
                                                 from |-> decoder.pos_, to |-> r.pos])]
            /\ last' = [op |-> "read", type |-> type, thrown |-> r.thrown]
            /\ UNCHANGED <<encoder, rest>>
    IN
    \/ \E type \in DOMAIN CodecValues : \E value \in CodecValues[type] :
          /\ last.op \in {"none", "emit"}
          /\ ~encoder.ec
          /\ Len(encoder.emitted) < MaxEmits
          /\ emitted(type, value, emit(type, value))
    \/ /\ last.op = "emit"
       /\ over(encoder.bytes)
    \/ /\ last.op = "emit"
       /\ over(SubSeq(encoder.bytes, 1, Len(encoder.bytes) - 1))
    \/ \E byte \in {0, 97} :
          /\ last.op = "emit"
          /\ last.type = "str"
          /\ over([encoder.bytes EXCEPT ![Len(encoder.bytes)] = byte])
    \/ /\ last.op \in {"BufferDecoder", "read"}
       /\ last.thrown = ""
       /\ Len(decoder.read) < Len(encoder.emitted)
       /\ reads(encoder.emitted[Len(decoder.read) + 1].type,
                read(encoder.emitted[Len(decoder.read) + 1].type,
                     decoder.data_, decoder.size_, decoder.pos_))

\* an Encoder and the BufferDecoder reading what it emitted
CodecSpec == Init /\ [][CodecNext]_vars

\* the n bytes are those of v, least significant first: as many as the model's
\* integers hold weigh v, and the bytes above them extend its sign
LittleEndianOf(bytes, v) ==
    /\ \A i \in 1..Len(bytes) :
          bytes[i] = IF i <= 4 THEN (v \div 256 ^ (i - 1)) % 256
                     ELSE IF v < 0 THEN 255 ELSE 0
    /\ Len(bytes) <= 3 => v = bytes[1] + (IF Len(bytes) >= 2 THEN 256 * bytes[2] ELSE 0)

\* C37: decoding what was emitted, in the order it was emitted, returns each
\* value emitted and moves the position by the number of bytes emitted for
\* it; an integer is emitted least significant byte first, in sizeof bytes,
\* a bool as one byte 1 or 0, a string as its length in 8 bytes, its bytes,
\* then 0xC1; and read_str throws when the byte after the string is not 0xC1.
C37_CodecRoundTrip ==
    /\ \A k \in 1..Len(encoder.emitted) :
          LET e == encoder.emitted[k]
              bytes == SubSeq(encoder.bytes, e.from + 1, e.from + e.size)
          IN CASE e.type = "str" ->
                    /\ e.size = 8 + Len(e.value) + 1
                    /\ LittleEndianOf(SubSeq(bytes, 1, 8), Len(e.value))
                    /\ SubSeq(bytes, 9, 8 + Len(e.value)) = e.value
                    /\ bytes[e.size] = 193
               [] e.type = "bool" -> bytes = <<IF e.value THEN 1 ELSE 0>>
               [] OTHER -> /\ e.size = sizeof(e.type)
                           /\ LittleEndianOf(bytes, IF e.value < 0 /\ e.size <= 2
                                                    THEN e.value + 256 ^ e.size
                                                    ELSE e.value)
    /\ \A k \in 1..Len(decoder.read) :
          LET e == encoder.emitted[k]
              r == decoder.read[k]
          IN /\ decoder.data_ = encoder.bytes =>
                   /\ r.thrown = ""
                   /\ r.ret = e.value
                   /\ r.from = e.from
                   /\ r.to - r.from = e.size
             /\ (/\ e.type = "str"
                 /\ Len(decoder.data_) >= e.from + e.size
                 /\ decoder.data_[e.from + e.size] # 193) => r.thrown # ""

\* a string and a signed integer have been decoded from the bytes emitted
C37_Witness ==
    /\ decoder.data_ = encoder.bytes
    /\ Len(decoder.read) = 2
    /\ decoder.read[1].type = "str"
    /\ decoder.read[1].ret = <<97, 98>>
    /\ decoder.read[2].type = "i64"
    /\ decoder.read[2].ret = 0 - 1
    /\ decoder.pos_ = 19

\* a string whose sentinel was overwritten has been read
C37_SentinelWitness ==
    /\ decoder.data_ # encoder.bytes
    /\ Len(decoder.read) = 1
    /\ decoder.read[1].type = "str"
    /\ decoder.read[1].thrown = "Missing string sentinel"

\* C38 (as claimed): a parse of `let x = init` adds x to the declared names
\* only once init has been parsed: when init begins with a reference to x and
\* no earlier let declared x, the parse fails with "Use of undeclared
\* variable: x"; when the parse of the let fails, no name is added; and when
\* it returns, x is declared.
C38_LetDeclaresAfterInitAsClaimed ==
    LET name == Str(tokens[last.at + 2].lexeme)
        init == IF tokens[last.at + 3].type = "Mut" THEN last.at + 4 ELSE last.at + 3
        \* a let inside the initialiser declares the same name
        again == \E i \in (init + 1)..(Len(tokens) - 1) :
                     /\ tokens[i].type = "Let"
                     /\ tokens[i + 1].type = "Identifier"
                     /\ Str(tokens[i + 1].lexeme) = name
    IN
    (/\ last.op = "parse"
     /\ Len(tokens) >= last.at + 3
     /\ tokens[last.at + 1].type = "Let"
     /\ tokens[last.at + 2].type = "Identifier") =>
        /\ phase \in {"parsing", "failed"}
        /\ (phase = "failed" /\ ~again) => (name \in declared_variables <=> name \in last.decl)
        /\ phase = "parsing" => name \in declared_variables
        /\ (/\ tokens[init].type = "Equals"
            /\ tokens[init + 1].type = "Identifier"
            /\ Str(tokens[init + 1].lexeme) = name
            /\ name \notin last.decl) =>
               /\ phase = "failed"
               /\ thrown = "Line " \o ToString(tokens[parser_current + 1].line)
                               \o ": Use of undeclared variable: " \o name
               /\ name \notin declared_variables

\* C40: on a token vector that ends with EOF_TOKEN the parser's index stays
\* within 0 .. number of tokens - 1 and never passes the EOF token; from every
\* index and with any names declared, parse_primary, parse_term and
\* parse_expression end at an index that is not before the one they began at,
\* and after it when they return a tree, so that every iteration of the loops
\* of parse_term, parse_expression and parse_block consumes a token and
\* previous() is read at an index of at least 1; and a call of parse or
\* parse_block whose behaviour is defined returns a tree or raises an error.
C40_ParserStaysInBounds ==
    LET last_index == Len(tokens) - 1
        inBounds(r, cur) ==
            /\ cur <= r.cur
            /\ r.cur <= last_index
            /\ r.ok => r.cur > cur
            /\ r.ok <=> r.msg = ""
        \* the operand of the loop of parse_term that begins at cur, an operator
        \* being at cur - 1, ends after it
        iteration(cur, decl) ==
            (cur >= 1 /\ tokens[cur].type \in {"Star", "Slash", "Plus", "Minus"}) =>
                /\ parse_primary(tokens, cur, decl).ok =>
                       parse_primary(tokens, cur, decl).cur > cur - 1
                /\ parse_term(tokens, cur, decl).ok =>
                       parse_term(tokens, cur, decl).cur > cur - 1
    IN
    /\ tokens[Len(tokens)].type = "EOF_TOKEN"
    /\ parser_current \in 0..last_index
    /\ \A cur \in 0..last_index, decl \in SUBSET {"x", "y"} :
           /\ inBounds(parse_primary(tokens, cur, decl), cur)
           /\ inBounds(parse_term(tokens, cur, decl), cur)
           /\ inBounds(parse_expression(tokens, cur, decl), cur)
           /\ inBounds(parse_at(tokens, cur, decl), cur)
           /\ inBounds(parse_block_at(tokens, cur, decl), cur)
           /\ iteration(cur, decl)
    /\ (last.op \in {"parse", "parse_block"} /\ phase # "crashed") =>
           /\ phase \in {"parsing", "failed"}
           /\ last.at <= parser_current
           /\ phase = "parsing" => thrown = "" /\ ast # NoNode /\ parser_current > last.at
           /\ phase = "failed" => thrown # "" /\ ast = NoNode

\* parse has returned the tree of an expression of five tokens or more, the
\* loops of parse_term and parse_expression having run, and stands at EOF_TOKEN
C40_Witness ==
    /\ last.op = "parse"
    /\ phase = "parsing"
    /\ ast.kind = "Binary"
    /\ parser_current - last.at >= 5
    /\ isAtEnd(tokens, parser_current)
    /\ parser_current = Len(tokens) - 1

=============================================================================
